---------------------------- MODULE Spec2Model ----------------------------
(***************************************************************************)
(* A model of the Telegram RAG bot of src/index.js: the chat orchestrator  *)
(* (callAzureOpenAI) with its two transports, the retry wrapper, retrieval *)
(* fusion, the document catalog with its per-document files, the chunker,  *)
(* the embedding cache, and start-up with its warm-up and health checks.   *)
(*                                                                         *)
(* Node runs one logical thread: an async function runs without            *)
(* interruption from one await to the next.  Every action below is one     *)
(* such run-to-the-next-await of one handler.                              *)
(***************************************************************************)
EXTENDS Integers, Sequences, FiniteSets, TLC

VARIABLES
    history,            \* index.js:2474  Map chatId -> [{role, content}, ...]
    reqs,               \* the chat requests received so far, in arrival order
    epoch,              \* per chat id: number of /reset commands processed
    counting,           \* whether the requests' upstream responses are observed
    rt,                 \* one run of retryWithBackoff (index.js:212)
    uploadedDocuments,  \* index.js:327  Map documentId -> documentInfo, in insertion order
    files,              \* documents/<documentId>.json, per document id
    ls,                 \* one run of searchUploadedDocuments (index.js:2751)
    rv,                 \* one run of retrieve (index.js:2683)
    ing,                \* the POST /upload requests received (index.js:2231)
    dels,               \* the DELETE /documents/:id requests received (index.js:2339)
    runs,               \* invocations of processDocument so far
    embeddingCache,     \* index.js:330  Map text -> vector: its entries, in insertion order
    em,                 \* one run of embedText (index.js:2479)
    texts,              \* distinct texts stored in the cache so far
    ck,                 \* processDocument's text, from extraction to chunking
    boot,               \* startServer (index.js:2997): its position, bot, server
    healthCheckInterval,\* index.js:356  the timer of startHealthCheck
    warmups,            \* the runs of warmUpServices (index.js:146) so far
    cs,                 \* one call of calculateCosineSimilarity (index.js:2829)
    vs,                 \* one document's chunks scored by searchUploadedDocuments (index.js:2791)
    bt                  \* one run of processDocument's batch loop (index.js:2588)

chatVars == <<history, reqs, epoch, counting>>
retryVars == <<rt>>
storeVars == <<uploadedDocuments, files>>
searchVars == <<ls, rv>>
docVars == <<ing, dels, runs>>
cacheVars == <<embeddingCache, em, texts>>
chunkVars == <<ck>>
startVars == <<boot, healthCheckInterval, warmups>>
cosineVars == <<cs, vs>>
batchVars == <<bt>>
vars == <<chatVars, retryVars, storeVars, searchVars, docVars, cacheVars,
          chunkVars, startVars, cosineVars, batchVars>>
nonChatVars == <<retryVars, storeVars, searchVars, docVars, cacheVars,
                 chunkVars, startVars, cosineVars, batchVars>>
nonRetryVars == <<chatVars, storeVars, searchVars, docVars, cacheVars,
                  chunkVars, startVars, cosineVars, batchVars>>

(***************************************************************************)
(* Bounds of the model.                                                    *)
(***************************************************************************)
MaxRequests == 3        \* chat requests received in one behaviour
MaxInFlight == 2        \* chat requests suspended at an await at one time
MaxResets == 1          \* /reset commands processed in one behaviour
MaxPerChannel == 1      \* requests per transport when both are compared
MaxN == 4               \* largest maxRetries handed to retryWithBackoff
MaxDocs == 2            \* document ids generated in one behaviour
MaxChunks == 11         \* chunks of the text whose batch loop is followed call by call
MaxK == 4               \* largest k handed to retrieve
MaxDeletes == 1         \* DELETE /documents/:id requests received
MaxUploading == 1       \* POST /upload requests being served at once
MaxTexts == 1201        \* distinct texts stored in the embedding cache
MaxChecks == 2          \* ticks of the health-check interval in one behaviour
MaxWarming == 1         \* runs of warmUpServices in flight at one time
MaxKeys == 2            \* distinct texts embedded when responses vary
MaxEarlier == 3         \* round trips already stored when a behaviour starts
MaxAsked == 1           \* requests followed call by call
MaxDim == 2             \* length of the vectors compared
MaxComponent == 3       \* largest component of the vectors compared
MaxLong == 102          \* length of the long vectors scored

(***************************************************************************)
(* Program constants.                                                      *)
(***************************************************************************)
CompletionRetries == 3  \* index.js:2930  retryWithBackoff(..., 3, 2000)
ChatRetries == 3        \* index.js:2180  retryWithBackoff(..., 3, 2000)
HistoryWindow == 4      \* index.js:2909  prior.slice(-4)

AzureRetries == 3       \* index.js:2729  retryWithBackoff(..., 3, 1000)
ReadRetries == 3        \* index.js:2763  maxRetries
UploadRetries == 3      \* index.js:2259  retryWithBackoff(..., 3, 2000)
EmbedRetries == 3       \* index.js:2507  retryWithBackoff(..., 3, 2000)
BATCH_SIZE == 5         \* index.js:333
RetrieveK == 4          \* index.js:2877  retrieve(userText, 4)
MAX_CACHE_SIZE == 1000  \* index.js:336
\* Similarities are counted in hundredths.
SimilarityThreshold == 10   \* index.js:2753  0.1
AzureSimilarity == 80       \* index.js:2739  0.8
AzureBonus == 1             \* index.js:2704  + 0.01

TelegramIds == {"tg1"}          \* msg.chat.id values (numbers)
WebIds == {"web-user"}          \* conversationId || 'web-user' (strings)
ChatIds == TelegramIds \cup WebIds

(***************************************************************************)
(* Sequence helpers.                                                       *)
(***************************************************************************)
Last(s) == s[Len(s)]

SliceWhole(s, n) == s

\* Array.prototype.slice(-n): the last n elements (all of them if fewer).
SliceLast(s, n) == IF Len(s) <= n THEN s ELSE SubSeq(s, Len(s) - n + 1, Len(s))

\* Array.prototype.slice(0, n)
SliceFirst(s, n) == IF Len(s) <= n THEN s ELSE SubSeq(s, 1, n)

Range(s) == {s[i] : i \in 1..Len(s)}
Min(x, y) == IF x <= y THEN x ELSE y

(***************************************************************************)
(* retryWithBackoff (index.js:212-233).  The loop's decision after one     *)
(* invocation of the operation, made on attempt `attempt` of maxRetries.   *)
(***************************************************************************)
RetryDecisionOffByOne(attempt, maxRetries, ok) ==
    IF ok THEN "return"
    ELSE IF attempt + 1 >= maxRetries THEN "throw"
    ELSE "retry"

RetryDecision(attempt, maxRetries, ok) ==
    IF ok THEN "return"
    ELSE IF attempt = maxRetries THEN "throw"
    ELSE "retry"

(***************************************************************************)
(* Messages.  A message is {role, content}; the content is modelled as a   *)
(* triple <<kind, n, body>>: the text of request n, the reply to request   *)
(* n, the placeholder glyph, or one of the three system texts.             *)
(***************************************************************************)
Msg(role, kind, n, body) == [role |-> role, content |-> <<kind, n, body>>]

UserMsg(n) == Msg("user", "text", n, <<>>)
AssistantMsg(reply) == Msg("assistant", reply[1], reply[2], <<>>)

SYSTEM_PROMPT == Msg("system", "SYSTEM_PROMPT", 0, <<>>)          \* :2475
SOURCES_RULES == Msg("system", "SOURCES_RULES", 0, <<>>)          \* :2906
NoSources == <<"No relevant sources found.">>                     \* :2872

\* What retrieve(userText, 4) can resolve to, seen from callAzureOpenAI:
\* it throws, or it returns a (possibly empty) list of passages.
RetrieveOutcomes ==
    { [threw |-> TRUE,  passages |-> <<>>],
      [threw |-> FALSE, passages |-> <<>>],
      [threw |-> FALSE, passages |-> <<"p1">>] }

\* index.js:2882-2891  the passages as numbered blocks
\* "[#k] title\ncontent\nSource: ...", joined by blank lines.  A passage
\* stands for its title, content and source line (FormatPassage spells
\* them out).
FormatPassages(passages) == [k \in 1..Len(passages) |-> <<k, passages[k]>>]

\* index.js:2872-2898
ContextBlockOfPassagesOnly(res) == FormatPassages(res.passages)

ContextBlock(res) ==
    IF res.threw \/ Len(res.passages) = 0 THEN NoSources
    ELSE FormatPassages(res.passages)

\* index.js:2901-2911
BuildMessages(prior, res, n) ==
    <<SYSTEM_PROMPT, SOURCES_RULES, Msg("system", "SOURCES", 0, ContextBlock(res))>>
      \o SliceLast(prior, HistoryWindow)
      \o <<UserMsg(n)>>

\* index.js:2933  r.data?.choices?.[0]?.message?.content?.trim() || '...'
\* The upstream answer is a text ("reply") or carries none ("empty").
CompletionData(n) == { <<"reply", n>>, <<"empty", 0>> }
ReplyOfContent(data) == data

ReplyOf(data) == IF data[1] = "empty" THEN <<"glyph", 0>> ELSE data

\* index.js:2937-2941  history.set(chatId, [...prior, user, assistant])
SaveToMemoryDropsPrior(prior, n, reply) ==
    <<UserMsg(n), AssistantMsg(reply)>>

SaveToMemoryWithSources(prior, n, reply) ==
    prior \o <<Msg("system", "SOURCES", 0, NoSources),
               UserMsg(n), AssistantMsg(reply)>>

SaveToMemory(prior, n, reply) ==
    prior \o <<UserMsg(n), AssistantMsg(reply)>>

(***************************************************************************)
(* Chat requests.  Request i is the i-th received; its user text is        *)
(* modelled as the number i, so that messages are told apart.              *)
(*   pc: "retrieve"   suspended at await retrieve(...)          (:2877)    *)
(*       "completion" suspended at await axios.post(...)        (:2919)    *)
(*       "backoff"    /chat's retry wrapper waits before it calls          *)
(*                    callAzureOpenAI again                     (:230)     *)
(*       "done"       the handler has answered                             *)
(* arrEpoch, doneEpoch, alone and log are observations, not program state: *)
(* the number of resets of the chat id processed when the request arrived  *)
(* and when it wrote the history, whether no other request of the chat id  *)
(* was in flight when it arrived, and (in a run with `counting` on, as     *)
(* with mocked upstreams) the upstream responses the request has received. *)
(***************************************************************************)
InFlight(i) == reqs[i].pc # "done"

OfChannel(chan) == {j \in 1..Len(reqs) : reqs[j].chan = chan}

NoResult == [threw |-> FALSE, passages |-> <<>>]

Logged(log, entry) == IF counting THEN Append(log, entry) ELSE log

\* What the user is sent: a text, in /chat's 200 body the sources, and in
\* /chat's 500 body the details.
NoResponse == [text |-> <<>>, sources |-> <<>>, details |-> <<>>]

\* :2184-2208  the sources of /chat's answer: the stored history is searched
\* from its end for a system message that holds 'SOURCES:', and the numbered
\* blocks of that message are parsed back into {title, content, url}.
ExtractSources(h) ==
    LET held == {k \in 1..Len(h) :
                    h[k].role = "system" /\ h[k].content[1] = "SOURCES"}
    IN  IF held = {} THEN <<>>
        ELSE LET k == CHOOSE x \in held : \A y \in held : y <= x
                 body == h[k].content[3]
             IN  IF body = NoSources THEN <<>>
                 ELSE [j \in 1..Len(body) |-> body[j][2]]

\* What is sent with a reply: /chat's JSON body (:2212-2218) has the sources,
\* the Telegram handler sends the reply alone (:2981).
ReplyResponse(chan, reply, h) ==
    [text |-> reply,
     sources |-> IF chan = "web" THEN ExtractSources(h) ELSE <<>>,
     details |-> <<>>]

\* :2988-2991  the Telegram handler's catch.
APOLOGY == <<"Sorry, I hit an error reaching the AI. Please try again.">>

\* :2223-2226  /chat's catch: { error, details: error.message }.
CHAT_ERROR == <<"Failed to process message">>

\* The message of the error the completion call threw on its attempt
\* `attempt` (an HTTP status, a network error or a timeout, as axios words it).
ErrorMessage(attempt) == <<"error.message", "completion", attempt>>

\* :2987-2991 and :2220-2227  the answer to a request whose callAzureOpenAI
\* threw `error` for good.
ErrorResponse(chan, error) ==
    IF chan = "telegram"
    THEN [text |-> APOLOGY, sources |-> <<>>, details |-> <<>>]
    ELSE [text |-> CHAT_ERROR, sources |-> <<>>, details |-> error]

NewRequestOnOneHistory(chan, c) ==
    [ chan |-> chan, chatId |-> c,
      pc |-> "retrieve",
      prior |-> history["web-user"],
      res |-> NoResult,
      attempt |-> 0,
      outer |-> 1,
      outcome |-> "pending",
      response |-> NoResponse,
      log |-> <<>>,
      arrEpoch |-> epoch[c], doneEpoch |-> 0,
      alone |-> \A j \in 1..Len(reqs) : reqs[j].chatId = c => ~InFlight(j) ]

NewRequest(chan, c) ==
    [ chan |-> chan, chatId |-> c,
      pc |-> "retrieve",
      prior |-> history[c],                 \* :2868 history.get(chatId) || []
      res |-> NoResult,
      attempt |-> 0,                        \* completion retry attempt
      outer |-> 1,                          \* /chat's retry attempt
      outcome |-> "pending",
      response |-> NoResponse,              \* what the user is sent
      log |-> <<>>,
      arrEpoch |-> epoch[c], doneEpoch |-> 0,
      alone |-> \A j \in 1..Len(reqs) : reqs[j].chatId = c => ~InFlight(j) ]

\* The handler has answered: callAzureOpenAI's locals are gone.
Answered(r, outcome, e) ==
    [r EXCEPT !.pc = "done", !.outcome = outcome, !.doneEpoch = e,
              !.prior = <<>>, !.res = NoResult, !.attempt = 0, !.outer = 0]

\* bot.on('message') (:2967-2978) and POST /chat (:2162-2180): a non-empty
\* text arrives and callAzureOpenAI runs to its first await.
Arrive(chan, c) ==
    /\ Len(reqs) < MaxRequests
    /\ Cardinality({j \in 1..Len(reqs) : InFlight(j)}) < MaxInFlight
    /\ reqs' = Append(reqs, NewRequest(chan, c))
    /\ UNCHANGED <<history, epoch, counting, nonChatVars>>

TelegramMessage == \E c \in TelegramIds : Arrive("telegram", c)

\* The message of a POST /chat body: absent, of white space only, or a text.
Bodies == {"missing", "blank", "text"}

\* :2166  !message || message.trim() === ''
MessageRequired(message) == message \in {"missing", "blank"}

MESSAGE_REQUIRED == <<"Message is required">>                     \* :2167

\* :2162-2180  POST /chat with the body's message: it is answered 400 at
\* once, or callAzureOpenAI runs to its first await.
PostChat(c, message) ==
    /\ Len(reqs) < MaxAsked
    /\ IF MessageRequired(message)
       THEN /\ reqs' = Append(reqs,
                    Answered([NewRequest("web", c) EXCEPT
                                 !.response.text = MESSAGE_REQUIRED],
                             "error400", 0))
            /\ UNCHANGED <<history, epoch, counting, nonChatVars>>
       ELSE Arrive("web", c)

ChatPost == \E c \in WebIds : Arrive("web", c)

\* :2877-2930  retrieve resolves (or throws, caught at :2895); the messages
\* are built and the first completion call is issued.
RetrieveResolves(i, res) ==
    /\ reqs[i].pc = "retrieve"
    /\ reqs' = [reqs EXCEPT ![i].pc = "completion",
                            ![i].res = res,
                            ![i].attempt = 1,
                            ![i].log = Logged(@, <<"retrieve", res>>)]
    /\ UNCHANGED <<history, epoch, counting, nonChatVars>>

\* The prompt of request i, once its retrieval has resolved.
Messages(i) == BuildMessages(reqs[i].prior, reqs[i].res, i)

\* :2932-2943  the completion call succeeds: the turn pair is saved and the
\* reply goes back to the transport, which answers (:2981, :2183-2218).
CompletionSucceeds(i, data) ==
    /\ reqs[i].pc = "completion"
    /\ history' = [history EXCEPT ![reqs[i].chatId] =
                      SaveToMemory(reqs[i].prior, i, ReplyOf(data))]
    /\ reqs' = [reqs EXCEPT ![i] =
                  Answered([@ EXCEPT !.log = Logged(@, <<"completion", data[1]>>),
                                     !.response =
                                        ReplyResponse(reqs[i].chan, ReplyOf(data),
                                                      history'[reqs[i].chatId])],
                           "replied", epoch[@.chatId])]
    /\ UNCHANGED <<epoch, counting, nonChatVars>>

\* What the transport does when callAzureOpenAI throws on attempt `outer`:
\* Telegram answers with the apology (:2987-2991); /chat's own
\* retryWithBackoff (:2178-2180) calls again or answers 500 (:2220-2227).
OnThrow(chan, outer) ==
    IF chan = "telegram" THEN "apology"
    ELSE IF RetryDecision(outer, ChatRetries, FALSE) = "retry" THEN "backoff"
    ELSE "error500"

HistoryWithUserMessage(h, prior, n) == prior \o <<UserMsg(n)>>

\* :2944-2948  the catch of callAzureOpenAI rethrows; history.set (:2937) was
\* not reached, the stored history h stays as it is.
HistoryOnThrow(h, prior, n) == h

\* The completion call fails (error status, network error or timeout).
\* retryWithBackoff at :2918 retries it or gives up; then callAzureOpenAI
\* throws (:2947).
CompletionFails(i) ==
    /\ reqs[i].pc = "completion"
    /\ LET r == [reqs[i] EXCEPT !.log = Logged(@, <<"completion", "fail">>)]
           inner == RetryDecision(r.attempt, CompletionRetries, FALSE)
           then == OnThrow(r.chan, r.outer)
       IN  IF inner = "retry"
           THEN reqs' = [reqs EXCEPT ![i] = [r EXCEPT !.attempt = @ + 1]]
           ELSE IF then = "backoff"
           THEN reqs' = [reqs EXCEPT ![i] =
                            [r EXCEPT !.pc = "backoff", !.prior = <<>>,
                                      !.res = NoResult, !.attempt = 0]]
           ELSE reqs' = [reqs EXCEPT ![i] =
                            Answered([r EXCEPT !.response =
                                         ErrorResponse(r.chan,
                                                       ErrorMessage(r.attempt))],
                                     then, 0)]
    /\ history' = [history EXCEPT ![reqs[i].chatId] =
                      HistoryOnThrow(@, reqs[i].prior, i)]
    /\ UNCHANGED <<epoch, counting, nonChatVars>>

\* :230 then :2179  /chat's wrapper has waited and calls callAzureOpenAI
\* again, which reads the history anew.
ChatRetry(i) ==
    /\ reqs[i].pc = "backoff"
    /\ reqs' = [reqs EXCEPT ![i].pc = "retrieve",
                            ![i].prior = history[reqs[i].chatId],
                            ![i].outer = @ + 1]
    /\ UNCHANGED <<history, epoch, counting, nonChatVars>>

\* :2961-2964  bot.onText(/^\/reset/)
Reset(c) ==
    /\ epoch[c] < MaxResets
    /\ history' = [history EXCEPT ![c] = <<>>]      \* history.delete(chatId)
    /\ epoch' = [epoch EXCEPT ![c] = @ + 1]
    /\ UNCHANGED <<reqs, counting, nonChatVars>>

ResetCommand == \E c \in TelegramIds : Reset(c)

\* The history of k earlier round trips, all answered (their requests are
\* numbered -k .. -1, oldest first).
Earlier(k) ==
    [j \in 1..(2 * k) |->
        IF j % 2 = 1 THEN UserMsg((j + 1) \div 2 - k - 1)
        ELSE AssistantMsg(<<"reply", j \div 2 - k - 1>>)]

ChatInit ==
    /\ history = [c \in ChatIds |-> <<>>]
    /\ reqs = <<>>
    /\ epoch = [c \in ChatIds |-> 0]

\* The Telegram transport: messages and /reset of a chat, several requests
\* in flight at once.
ChatNext ==
    \/ TelegramMessage
    \/ ResetCommand
    \/ \E i \in 1..Len(reqs), res \in RetrieveOutcomes : RetrieveResolves(i, res)
    \/ \E i \in 1..Len(reqs) : CompletionSucceeds(i, <<"reply", i>>)
    \/ \E i \in 1..Len(reqs) : CompletionFails(i)

\* Both transports side by side, at most MaxPerChannel requests on each,
\* with the upstream responses of every request observed.
ChannelTelegramMessage ==
    /\ Cardinality(OfChannel("telegram")) < MaxPerChannel
    /\ TelegramMessage

ChannelChatPost ==
    /\ Cardinality(OfChannel("web")) < MaxPerChannel
    /\ ChatPost

ChannelsNext ==
    \/ ChannelTelegramMessage
    \/ ChannelChatPost
    \/ \E i \in 1..Len(reqs), res \in RetrieveOutcomes : RetrieveResolves(i, res)
    \/ \E i \in 1..Len(reqs) : \E data \in CompletionData(i) : CompletionSucceeds(i, data)
    \/ \E i \in 1..Len(reqs) : CompletionFails(i)
    \/ \E i \in 1..Len(reqs) : ChatRetry(i)

(***************************************************************************)
(* One run of retryWithBackoff(operation, maxRetries) (index.js:212-233).  *)
(*   status: "calling"  suspended at await operation()                     *)
(*           "waiting"  suspended at the backoff delay                     *)
(*           "returned" / "thrown"                                         *)
(*   log: the outcome of each invocation of the operation so far, a value  *)
(*        <<"ok", v>> or an error <<"err", e>>.                            *)
(***************************************************************************)
Values == {"v1", "v2"}
Errors == {"e1", "e2"}

RtIdle == [maxRetries |-> 0, attempt |-> 0, status |-> "idle",
           log |-> <<>>, lastError |-> "none", result |-> "none"]

\* :215  the loop is entered (or not, when maxRetries < 1) and the operation
\* is invoked for the first time.
RtStart(n) ==
    [maxRetries |-> n, attempt |-> 1,
     status |-> IF 1 <= n THEN "calling" ELSE "returned",
     log |-> <<>>, lastError |-> "none", result |-> "undefined"]

\* :217-225  the operation settles.
RtSettle(ok, x) ==
    /\ rt.status = "calling"
    /\ LET d == RetryDecision(rt.attempt, rt.maxRetries, ok)
           logged == Append(rt.log, <<IF ok THEN "ok" ELSE "err", x>>)
       IN  rt' = CASE d = "return" ->
                        [rt EXCEPT !.status = "returned", !.result = x,
                                   !.log = logged]
                   [] d = "throw" ->
                        [rt EXCEPT !.status = "thrown", !.lastError = x,
                                   !.log = logged]
                   [] OTHER ->
                        [rt EXCEPT !.status = "waiting", !.lastError = x,
                                   !.log = logged]
    /\ UNCHANGED nonRetryVars

RtOperationSucceeds == \E v \in Values : RtSettle(TRUE, v)

RtOperationFails == \E e \in Errors : RtSettle(FALSE, e)

\* :230 then :215-217  the delay is over: next attempt.
RtBackoffOver ==
    /\ rt.status = "waiting"
    /\ rt' = [rt EXCEPT !.status = "calling", !.attempt = @ + 1]
    /\ UNCHANGED nonRetryVars

RetryInit == \E n \in 0..MaxN : rt = RtStart(n)

RetryNext ==
    \/ RtOperationSucceeds
    \/ RtOperationFails
    \/ RtBackoffOver

(***************************************************************************)
(* The local store: the catalog uploadedDocuments and one file per         *)
(* document.  A file is absent, partial (being written), corrupt (it       *)
(* cannot be parsed) or complete; a complete file holds the embedded       *)
(* chunks.  A chunk is modelled by its position n and by sim, the value    *)
(* calculateCosineSimilarity gives for it against the query vector.        *)
(***************************************************************************)
DocIds == 1..MaxDocs

NoFile == [state |-> "absent", chunks |-> <<>>]

CatalogIds == {uploadedDocuments[i].id : i \in 1..Len(uploadedDocuments)}

WholeK(k) == k

\* Math.ceil(k / 2)
CeilHalf(k) == (k + 1) \div 2

\* Array.prototype.sort with the comparator (a, b) => score(b) - score(a):
\* descending, and stable.  score[i] is the score of s[i].
StableSortDesc(s, score) ==
    LET n == Len(s)
        Rank(i) == 1 + Cardinality({j \in 1..n :
                        \/ score[j] > score[i]
                        \/ score[j] = score[i] /\ j < i})
    IN  [r \in 1..n |-> s[CHOOSE i \in 1..n : Rank(i) = r]]

BySimilarity(s) == StableSortDesc(s, [i \in 1..Len(s) |-> s[i].similarity])

\* :2791-2812  the passages of one document, given its parsed file.
DocResults(documentId, chunks, k) ==
    LET AboveThreshold(c) == c.sim > SimilarityThreshold
        chunkResults ==
            [i \in 1..Len(SelectSeq(chunks, AboveThreshold)) |->
                [source |-> "uploaded_document",
                 similarity |-> SelectSeq(chunks, AboveThreshold)[i].sim,
                 documentId |-> documentId,
                 n |-> SelectSeq(chunks, AboveThreshold)[i].n]]
    IN  SliceFirst(BySimilarity(chunkResults), CeilHalf(k))

\* allResults.flat(), in the order of the catalog entries.
RECURSIVE Flat(_, _)
Flat(order, docs) ==
    IF order = <<>> THEN <<>>
    ELSE docs[Head(order)].results \o Flat(Tail(order), docs)

\* :2822-2826
LocalTopK(order, docs, k) == SliceFirst(BySimilarity(Flat(order, docs)), k)

(***************************************************************************)
(* One run of searchUploadedDocuments(question, vector, k)                 *)
(* (index.js:2751-2827).  Per catalogued document, pc is                   *)
(*   "exists"  suspended at await fs.pathExists(chunksPath)     (:2767)    *)
(*   "read"    suspended at await fs.readJson(chunksPath)       (:2768)    *)
(*   "wait"    suspended at the 500 ms delay             (:2774, :2781)    *)
(*   "done"    the document's promise has resolved                         *)
(***************************************************************************)
LsIdle == [status |-> "idle", k |-> 0, order |-> <<>>, docs |-> <<>>,
           results |-> <<>>]

\* :2756  the entries of the catalog are taken and every document's
\* callback runs to its first await.
LsCalled(k) ==
    LET order == [i \in 1..Len(uploadedDocuments) |-> uploadedDocuments[i].id]
    IN  [status |-> IF order = <<>> THEN "done" ELSE "running",
         k |-> k,
         order |-> order,
         docs |-> [d \in Range(order) |->
                      [pc |-> "exists", tries |-> 0, results |-> <<>>]],
         results |-> <<>>]

FailedTryGivesUpAtOnce(st) ==
    [st EXCEPT !.tries = @ + 1, !.pc = "done", !.results = <<>>]

\* :2770-2789  one failed try: wait and try again, or give the document up.
FailedTry(st) ==
    IF st.tries + 1 < ReadRetries
    THEN [st EXCEPT !.tries = @ + 1, !.pc = "wait"]
    ELSE [st EXCEPT !.tries = @ + 1, !.pc = "done", !.results = <<>>]

\* :2820-2826  Promise.all resolves once every document's promise has.
LsAfter(docs) ==
    CHOOSE after \in
        { IF \A d \in DOMAIN now : now[d].pc = "done"
          THEN [ls EXCEPT !.docs = now, !.status = "done",
                          !.results = LocalTopK(ls.order, now, ls.k)]
          ELSE [ls EXCEPT !.docs = now] : now \in {docs} } : TRUE

LsPathExists(d) ==
    /\ ls.status = "running"
    /\ ls.docs[d].pc = "exists"
    /\ ls' = LsAfter([ls.docs EXCEPT ![d] =
                IF files[d].state # "absent"
                THEN [@ EXCEPT !.pc = "read"]
                ELSE FailedTry(@)])
    /\ UNCHANGED <<rv, storeVars, chatVars, retryVars, docVars, cacheVars, chunkVars, startVars, cosineVars, batchVars>>

\* fs.readJson throws when the file has gone or does not parse.
LsReadJson(d) ==
    /\ ls.status = "running"
    /\ ls.docs[d].pc = "read"
    /\ ls' = LsAfter([ls.docs EXCEPT ![d] =
                IF files[d].state = "complete"
                THEN [@ EXCEPT !.pc = "done",
                               !.results = DocResults(d, files[d].chunks, ls.k)]
                ELSE FailedTry(@)])
    /\ UNCHANGED <<rv, storeVars, chatVars, retryVars, docVars, cacheVars, chunkVars, startVars, cosineVars, batchVars>>

LsWaitOver(d) ==
    /\ ls.status = "running"
    /\ ls.docs[d].pc = "wait"
    /\ ls' = [ls EXCEPT !.docs[d].pc = "exists"]
    /\ UNCHANGED <<rv, storeVars, chatVars, retryVars, docVars, cacheVars, chunkVars, startVars, cosineVars, batchVars>>

(***************************************************************************)
(* One run of retrieve(question, k) (index.js:2683-2709) with              *)
(* searchAzureIndex (index.js:2711-2749).                                  *)
(*   pc: "embed"   suspended at await embedText(question)       (:2684)    *)
(*       "delay"   suspended at the 200 ms delay                (:2689)    *)
(*       "search"  suspended at await Promise.all([...])        (:2692)    *)
(*       "done" / "thrown"                                                 *)
(*   azure.status: "calling" (await searchClient.search, :2716), "ok",     *)
(*       "failed" (every attempt failed), "threw"                          *)
(***************************************************************************)
AzureIdle == [status |-> "idle", attempt |-> 0, results |-> <<>>]

RvIdle == [pc |-> "idle", k |-> 0, azure |-> AzureIdle, result |-> <<>>]

\* :2731-2741  the a documents of the search response, as passages.
AzurePassages(a) ==
    [i \in 1..a |-> [source |-> "azure_search", similarity |-> AzureSimilarity,
                     documentId |-> 0, n |-> i]]

\* :2704-2705
FusionScoreFavoursUploads(p) ==
    IF p.source = "uploaded_document" THEN p.similarity + AzureBonus
    ELSE p.similarity

FusionScoreWithoutBonus(p) == p.similarity

FusionScore(p) ==
    IF p.source = "azure_search" THEN p.similarity + AzureBonus
    ELSE p.similarity

\* :2697-2708
FuseCutsAfterK(azureResults, uploadedResults, k) ==
    LET allResults == azureResults \o uploadedResults
    IN  SliceFirst(StableSortDesc(allResults,
            [i \in 1..Len(allResults) |-> FusionScore(allResults[i])]), k + 1)

Fuse(azureResults, uploadedResults, k) ==
    LET allResults == azureResults \o uploadedResults
    IN  SliceFirst(StableSortDesc(allResults,
            [i \in 1..Len(allResults) |-> FusionScore(allResults[i])]), k)

\* :2745-2748  searchAzureIndex's catch: the error is logged, [] returned.
AzureCatchRethrows == [status |-> "threw", results |-> <<>>]

AzureCatch == [status |-> "failed", results |-> <<>>]

RvCall(k) ==
    /\ rv.pc = "idle"
    /\ rv' = [RvIdle EXCEPT !.pc = "embed", !.k = k]
    /\ UNCHANGED <<ls, storeVars, chatVars, retryVars, docVars, cacheVars, chunkVars, startVars, cosineVars, batchVars>>

\* embedText returns the vector (always an array: :2501).
RvEmbedResolves ==
    /\ rv.pc = "embed"
    /\ rv' = [rv EXCEPT !.pc = "delay"]
    /\ UNCHANGED <<ls, storeVars, chatVars, retryVars, docVars, cacheVars, chunkVars, startVars, cosineVars, batchVars>>

\* embedText throws once its retries are exhausted, and so does retrieve.
RvEmbedThrows ==
    /\ rv.pc = "embed"
    /\ rv' = [rv EXCEPT !.pc = "thrown"]
    /\ UNCHANGED <<ls, storeVars, chatVars, retryVars, docVars, cacheVars, chunkVars, startVars, cosineVars, batchVars>>

\* :2692-2695  both searches are started.
RvStartSearches ==
    /\ rv.pc = "delay"
    /\ rv' = [rv EXCEPT !.pc = "search",
                        !.azure = [status |-> "calling", attempt |-> 1,
                                   results |-> <<>>]]
    /\ ls' = LsCalled(rv.k)
    /\ UNCHANGED <<storeVars, chatVars, retryVars, docVars, cacheVars, chunkVars, startVars, cosineVars, batchVars>>

\* The search answers with a documents (top: k).
RvAzureResponds(a) ==
    /\ rv.pc = "search"
    /\ rv.azure.status = "calling"
    /\ rv' = [rv EXCEPT !.azure.status = "ok",
                        !.azure.results = AzurePassages(a)]
    /\ UNCHANGED <<ls, storeVars, chatVars, retryVars, docVars, cacheVars, chunkVars, startVars, cosineVars, batchVars>>

\* The search fails: retried, or caught by searchAzureIndex.  If
\* searchAzureIndex threw, Promise.all would reject and retrieve throw.
RvAzureFails ==
    /\ rv.pc = "search"
    /\ rv.azure.status = "calling"
    /\ rv' = IF RetryDecision(rv.azure.attempt, AzureRetries, FALSE) = "retry"
             THEN [rv EXCEPT !.azure.attempt = @ + 1]
             ELSE [rv EXCEPT !.azure.status = AzureCatch.status,
                             !.azure.results = AzureCatch.results,
                             !.pc = IF AzureCatch.status = "threw"
                                    THEN "thrown" ELSE @]
    /\ UNCHANGED <<ls, storeVars, chatVars, retryVars, docVars, cacheVars, chunkVars, startVars, cosineVars, batchVars>>

\* :2697-2708  both searches have settled: the results are fused.
RvFuse ==
    /\ rv.pc = "search"
    /\ rv.azure.status \in {"ok", "failed"}
    /\ ls.status = "done"
    /\ rv' = [rv EXCEPT !.pc = "done",
                        !.result = Fuse(rv.azure.results, ls.results, rv.k)]
    /\ UNCHANGED <<ls, storeVars, chatVars, retryVars, docVars, cacheVars, chunkVars, startVars, cosineVars, batchVars>>

(***************************************************************************)
(* The passages of a retrieval as callAzureOpenAI writes them into the     *)
(* prompt (index.js:2880-2891).  A passage of the model is told by its     *)
(* source, its document and its position n; the texts it carries are       *)
(* named after these.                                                      *)
(***************************************************************************)
\* :2735 d.title, :2798 documentInfo.originalName
PassageTitle(p) ==
    IF p.source = "uploaded_document" THEN <<"originalName", p.documentId>>
    ELSE <<"title", p.n>>

\* :2736 d.url, :2799 `uploaded://${documentId}`
PassageUrl(p) ==
    IF p.source = "uploaded_document" THEN <<"uploaded://", p.documentId>>
    ELSE <<"url", p.n>>

\* :2737 d.content, :2800 chunk.content
PassageContent(p) == <<"content", p.documentId, p.n>>

\* :2885-2887  sourceInfo
SourceInfo(p) ==
    IF p.source = "uploaded_document"
    THEN <<"Uploaded Document: ", PassageTitle(p)>>
    ELSE PassageUrl(p)

\* :2888  `[#${i + 1}] ${title}\n${content}\nSource: ${sourceInfo}`, for the
\* passage at position i (counted from 1).
FormatPassage(p, i) ==
    [tag |-> i, title |-> PassageTitle(p), content |-> PassageContent(p),
     source |-> SourceInfo(p)]

\* :2882-2891  passages.map(...), joined by blank lines.
ContextBlocks(passages) ==
    [i \in 1..Len(passages) |-> FormatPassage(passages[i], i)]

\* The files a search can meet for a catalogued document.
\* Chunk similarities, by position in the file: no chunk; one chunk at the
\* threshold; two chunks out of order, one level with the remote
\* similarity; three chunks, two of them level with a remote fusion score.
ChunkLists == { <<>>, <<10>>, <<80, 90>>, <<81, 90, 81>> }

FileChoices ==
    {NoFile, [state |-> "corrupt", chunks |-> <<>>]}
      \cup { [state |-> "complete",
              chunks |-> [i \in 1..Len(sims) |-> [n |-> i, sim |-> sims[i]]]]
             : sims \in ChunkLists }

DocsIdle ==
    /\ ing = <<>>
    /\ dels = <<>>
    /\ runs = 0

StoreEmpty ==
    /\ uploadedDocuments = <<>>
    /\ files = [d \in DocIds |-> NoFile]

RetrieveNext ==
    \/ \E k \in 1..MaxK : RvCall(k)
    \/ RvEmbedResolves
    \/ RvEmbedThrows
    \/ RvStartSearches
    \/ \E a \in 0..rv.k : RvAzureResponds(a)
    \/ RvAzureFails
    \/ \E d \in DOMAIN ls.docs : LsPathExists(d)
    \/ \E d \in DOMAIN ls.docs : LsReadJson(d)
    \/ \E d \in DOMAIN ls.docs : LsWaitOver(d)
    \/ RvFuse

(***************************************************************************)
(* POST /upload (index.js:2231-2313) with processDocument                  *)
(* (index.js:2549-2677).  An upload request's pc is                        *)
(*   "extract"  suspended at await extractTextFrom...(filePath)            *)
(*   "embed"    suspended at await Promise.all(batchPromises)    (:2616)   *)
(*   "write"    suspended at await fs.writeJson(chunksPath, ...) (:2645)   *)
(*   "delay"    suspended at the 1 s delay                       (:2652)   *)
(*   "verify"   suspended at await fs.readJson(chunksPath)       (:2657)   *)
(*   "backoff"  /upload's retry wrapper waits                    (:230)    *)
(*   "cleanup"  suspended at await fs.remove(req.file.path)      (:2270)   *)
(*   "catch"    suspended at the catch's fs.remove               (:2303)   *)
(*   "done"     the response is sent (status 200 or 500)                   *)
(* runs counts the invocations of processDocument; the document id, a      *)
(* fresh uuid (:2630), is modelled by the number of the invocation.  sims  *)
(* lists the chunks of the text, each by the similarity the query of the   *)
(* behaviour's search has with it; embedded, the chunks embedded so far.   *)
(***************************************************************************)
\* :312-316  the types multer's fileFilter lets through.
allowedTypes ==
    { "application/pdf",
      "application/vnd.openxmlformats-officedocument.wordprocessingml.document",
      "application/msword" }

\* The types of the files sent.
MimeTypes == {"application/pdf", "application/msword", "text/plain"}

\* :311-323  fileFilter: cb(null, true), or cb(new Error(...)).
FileFilterAcceptsAll(mime) == TRUE

FileFilter(mime) == mime \in allowedTypes

\* :2556-2564  processDocument extracts text from a PDF and from a type
\* whose name includes 'word'; otherwise it throws.
ExtractsText(mime) ==
    mime \in { "application/pdf",
               "application/vnd.openxmlformats-officedocument.wordprocessingml.document",
               "application/msword" }

NewUpload ==
    [pc |-> "extract", outer |-> 1, run |-> runs + 1,
     mime |-> "application/pdf",
     sims |-> <<>>, batch |-> 0, embedded |-> <<>>, opened |-> FALSE,
     status |-> 0]

\* :2235-2259  a file arrives; processDocument runs to its first await.
UploadPost ==
    /\ runs < MaxDocs
    /\ Cardinality({i \in 1..Len(ing) : ing[i].pc # "done"}) < MaxUploading
    /\ ing' = Append(ing, NewUpload)
    /\ runs' = runs + 1
    /\ UNCHANGED <<dels, storeVars, searchVars, chatVars, retryVars, cacheVars, chunkVars, startVars, cosineVars, batchVars>>

\* POST /upload with a file of type `mime`.  multer's fileFilter (:311-323)
\* runs before the file is stored and before the handler: a type it refuses
\* goes to Express's error handling (status 500) and the handler is never
\* called; a type it accepts is handled as in UploadPost.
UploadFile(mime) ==
    /\ Len(ing) < MaxDocs
    /\ runs < MaxDocs
    /\ Cardinality({i \in 1..Len(ing) : ing[i].pc # "done"}) < MaxUploading
    /\ IF FileFilter(mime)
       THEN /\ ing' = Append(ing, [NewUpload EXCEPT !.mime = mime])
            /\ runs' = runs + 1
       ELSE /\ ing' = Append(ing, [NewUpload EXCEPT !.pc = "done", !.outer = 0,
                                                   !.run = 0, !.mime = mime,
                                                   !.status = 500])
            /\ runs' = runs
    /\ UNCHANGED <<dels, storeVars, searchVars, chatVars, retryVars, cacheVars, chunkVars, startVars, cosineVars, batchVars>>

\* The chunk texts and vectors are read no more (but for the log) once the
\* file is written, nor is anything of the request once it is answered.
Written(r) == [r EXCEPT !.sims = <<>>, !.embedded = <<>>, !.batch = 0]

Responded(r, status) ==
    [Written(r) EXCEPT !.pc = "done", !.status = status, !.outer = 0,
                       !.opened = FALSE]

\* :2629-2641  Store document info: the catalog entry is set (the write of
\* the file is issued next, :2645).
RegisterAllEmbedded(r) ==
    Append(uploadedDocuments,
           [id |-> r.run, chunks |-> Len(r.sims), embeddings |-> Len(r.sims)])

Register(r) ==
    Append(uploadedDocuments,
           [id |-> r.run, chunks |-> Len(r.sims),
            embeddings |-> Len(r.embedded)])

BatchOfAllTheRest(r) == {n \in 1..Len(r.sims) : r.batch < n}

\* The chunks of one batch: positions batch+1 .. batch+BATCH_SIZE.
BatchOf(r) ==
    {n \in 1..Len(r.sims) : r.batch < n /\ n <= r.batch + BATCH_SIZE}

\* :2588-2625  the loop over the batches is (re-)entered: the next batch is
\* awaited, or the loop is over and the document is stored.
AfterBatch(r) ==
    IF r.batch < Len(r.sims)
    THEN [r EXCEPT !.pc = "embed"]
    ELSE [r EXCEPT !.pc = "write"]

\* The text is extracted, cleaned and chunked.
ExtractResolves(i, sims) ==
    /\ ing[i].pc = "extract"
    /\ ExtractsText(ing[i].mime)
    /\ LET r == AfterBatch([ing[i] EXCEPT !.sims = sims])
       IN  /\ ing' = [ing EXCEPT ![i] = r]
           /\ uploadedDocuments' =
                 IF r.pc = "write" THEN Register(r) ELSE uploadedDocuments
    /\ UNCHANGED <<files, dels, runs, searchVars, chatVars, retryVars, cacheVars, chunkVars, startVars, cosineVars, batchVars>>

\* processDocument throws on attempt `outer` of /upload's retryWithBackoff
\* (:2253-2259): the wrapper waits and calls again, or /upload's catch runs.
ProcessThrows(r) ==
    IF RetryDecision(r.outer, UploadRetries, FALSE) = "retry"
    THEN [Written(r) EXCEPT !.pc = "backoff", !.opened = FALSE]
    ELSE [Written(r) EXCEPT !.pc = "catch", !.opened = FALSE]

\* Extraction fails, or the type is none that processDocument knows (:2563).
ExtractThrows(i) ==
    /\ ing[i].pc = "extract"
    /\ ing' = [ing EXCEPT ![i] = ProcessThrows(@)]
    /\ UNCHANGED <<dels, runs, storeVars, searchVars, chatVars, retryVars, cacheVars, chunkVars, startVars, cosineVars, batchVars>>

\* Every embedText of the batch has settled; ok are the chunks whose
\* embedding succeeded (a failed one is dropped, :2610-2618).
BatchResolves(i, ok) ==
    /\ ing[i].pc = "embed"
    /\ ok \subseteq BatchOf(ing[i])
    /\ LET valid == SelectSeq([n \in 1..Len(ing[i].sims) |->
                                  [n |-> n, sim |-> ing[i].sims[n]]],
                              LAMBDA c : c.n \in ok)
           r == AfterBatch([ing[i] EXCEPT !.embedded = @ \o valid,
                                          !.batch = @ + BATCH_SIZE])
       IN  /\ ing' = [ing EXCEPT ![i] = r]
           /\ uploadedDocuments' =
                 IF r.pc = "write" THEN Register(r) ELSE uploadedDocuments
    /\ UNCHANGED <<files, dels, runs, searchVars, chatVars, retryVars, cacheVars, chunkVars, startVars, cosineVars, batchVars>>

\* fs.writeJson creates (or truncates) the file ...
WriteBegins(i) ==
    /\ ing[i].pc = "write"
    /\ ~ing[i].opened
    /\ ing' = [ing EXCEPT ![i].opened = TRUE]
    /\ files' = [files EXCEPT ![ing[i].run] =
                    [state |-> "partial", chunks |-> <<>>]]
    /\ UNCHANGED <<uploadedDocuments, dels, runs, searchVars, chatVars, retryVars,
                   cacheVars, chunkVars, startVars, cosineVars, batchVars>>

\* ... and has written it all.  (If the file was unlinked meanwhile, the
\* data stays unreachable.)
WriteCompletes(i) ==
    /\ ing[i].pc = "write"
    /\ ing[i].opened
    /\ ing' = [ing EXCEPT ![i] = Written([@ EXCEPT !.pc = "delay"])]
    /\ files' = [files EXCEPT ![ing[i].run] =
                    IF @.state = "partial"
                    THEN [state |-> "complete", chunks |-> ing[i].embedded]
                    ELSE @]
    /\ UNCHANGED <<uploadedDocuments, dels, runs, searchVars, chatVars, retryVars,
                   cacheVars, chunkVars, startVars, cosineVars, batchVars>>

\* fs.writeJson rejects (no space, no permission): processDocument throws.
WriteFails(i) ==
    /\ ing[i].pc = "write"
    /\ ing' = [ing EXCEPT ![i] = ProcessThrows(@)]
    /\ UNCHANGED <<dels, runs, storeVars, searchVars, chatVars, retryVars, cacheVars, chunkVars, startVars, cosineVars, batchVars>>

DelayOver(i) ==
    /\ ing[i].pc = "delay"
    /\ ing' = [ing EXCEPT ![i].pc = "verify"]
    /\ UNCHANGED <<dels, runs, storeVars, searchVars, chatVars, retryVars, cacheVars, chunkVars, startVars, cosineVars, batchVars>>

\* :2656-2666  the verification read settles; whatever it found,
\* processDocument returns documentInfo and /upload goes on (:2261-2270).
VerifySettles(i) ==
    /\ ing[i].pc = "verify"
    /\ ing' = [ing EXCEPT ![i].pc = "cleanup"]
    /\ UNCHANGED <<dels, runs, storeVars, searchVars, chatVars, retryVars, cacheVars, chunkVars, startVars, cosineVars, batchVars>>

\* :2270-2287  the uploaded temporary file is removed: 200.
CleanupDone(i) ==
    /\ ing[i].pc = "cleanup"
    /\ ing' = [ing EXCEPT ![i] = Responded(@, 200)]
    /\ UNCHANGED <<dels, runs, storeVars, searchVars, chatVars, retryVars, cacheVars, chunkVars, startVars, cosineVars, batchVars>>

\* fs.remove rejects: /upload's catch runs.
CleanupFails(i) ==
    /\ ing[i].pc = "cleanup"
    /\ ing' = [ing EXCEPT ![i].pc = "catch"]
    /\ UNCHANGED <<dels, runs, storeVars, searchVars, chatVars, retryVars, cacheVars, chunkVars, startVars, cosineVars, batchVars>>

\* :2289-2312  /upload's catch: 500.
UploadCatchDone(i) ==
    /\ ing[i].pc = "catch"
    /\ ing' = [ing EXCEPT ![i] = Responded(@, 500)]
    /\ UNCHANGED <<dels, runs, storeVars, searchVars, chatVars, retryVars, cacheVars, chunkVars, startVars, cosineVars, batchVars>>

\* :230 then :2254  the wrapper has waited: processDocument is called again.
UploadRetry(i) ==
    /\ ing[i].pc = "backoff"
    /\ runs < MaxDocs
    /\ ing' = [ing EXCEPT ![i] = [NewUpload EXCEPT !.outer = ing[i].outer + 1,
                                                   !.mime = ing[i].mime]]
    /\ runs' = runs + 1
    /\ UNCHANGED <<dels, storeVars, searchVars, chatVars, retryVars, cacheVars, chunkVars, startVars, cosineVars, batchVars>>

(***************************************************************************)
(* DELETE /documents/:id (index.js:2339-2365).                             *)
(*   pc: "exists"  suspended at await fs.pathExists(chunksPath)  (:2353)   *)
(*       "remove"  suspended at await fs.remove(chunksPath)      (:2354)   *)
(*       "done"    the response is sent (status 200, 404 or 500)           *)
(* removed tells that the request's fs.remove has been carried out.        *)
(***************************************************************************)
WithoutIdKeepsAll(catalog, d) == catalog

WithoutIdKeepsOnlyId(catalog, d) ==
    SelectSeq(catalog, LAMBDA info : info.id = d)

WithoutId(catalog, d) == SelectSeq(catalog, LAMBDA info : info.id # d)

DeleteRequest(d) ==
    /\ Len(dels) < MaxDeletes
    /\ IF d \in CatalogIds
       THEN /\ uploadedDocuments' = WithoutId(uploadedDocuments, d)
            /\ dels' = Append(dels, [id |-> d, pc |-> "exists", status |-> 0,
                                  removed |-> FALSE])
       ELSE /\ dels' = Append(dels, [id |-> d, pc |-> "done", status |-> 404,
                                  removed |-> FALSE])
            /\ UNCHANGED uploadedDocuments
    /\ UNCHANGED <<files, ing, runs, searchVars, chatVars, retryVars, cacheVars, chunkVars, startVars, cosineVars, batchVars>>

DelPathExists(j) ==
    /\ dels[j].pc = "exists"
    /\ dels' = IF files[dels[j].id].state # "absent"
               THEN [dels EXCEPT ![j].pc = "remove"]
               ELSE [dels EXCEPT ![j].pc = "done", ![j].status = 200]
    /\ UNCHANGED <<ing, runs, storeVars, searchVars, chatVars, retryVars, cacheVars, chunkVars, startVars, cosineVars, batchVars>>

\* fs.remove succeeds (also when the file has gone meanwhile).
DelRemove(j) ==
    /\ dels[j].pc = "remove"
    /\ files' = [files EXCEPT ![dels[j].id] = NoFile]
    /\ dels' = [dels EXCEPT ![j].pc = "done", ![j].status = 200,
                            ![j].removed = TRUE]
    /\ UNCHANGED <<uploadedDocuments, ing, runs, searchVars, chatVars, retryVars,
                   cacheVars, chunkVars, startVars, cosineVars, batchVars>>

\* fs.remove rejects: the catch answers 500 (:2361-2364).
DelRemoveFails(j) ==
    /\ dels[j].pc = "remove"
    /\ dels' = [dels EXCEPT ![j].pc = "done", ![j].status = 500]
    /\ UNCHANGED <<ing, runs, storeVars, searchVars, chatVars, retryVars, cacheVars, chunkVars, startVars, cosineVars, batchVars>>

\* searchUploadedDocuments is called (by retrieve, :2694, or by
\* testLocalSearch, :193).
LsCall(k) ==
    /\ ls.status = "idle"
    /\ ls' = LsCalled(k)
    /\ UNCHANGED <<rv, docVars, storeVars, chatVars, retryVars, cacheVars, chunkVars, startVars, cosineVars, batchVars>>

\* The texts uploaded: without a chunk; with two chunks; with more chunks
\* than one batch holds.
UploadedTexts == { <<>>, <<80, 90>>, <<90, 10, 80, 10, 10, 81>> }

\* The embeddings of a batch all succeed, all fail, or all succeed but the
\* first, or but the last.
BatchOutcomes(r) ==
    LET b == BatchOf(r)
    IN  {b, {}, {n \in b : n - 1 \in b}, {n \in b : n + 1 \in b}}

IngestNext ==
    \/ UploadPost
    \/ \E i \in 1..Len(ing) : \E sims \in UploadedTexts : ExtractResolves(i, sims)
    \/ \E i \in 1..Len(ing) : ExtractThrows(i)
    \/ \E i \in 1..Len(ing) : \E ok \in BatchOutcomes(ing[i]) : BatchResolves(i, ok)
    \/ \E i \in 1..Len(ing) : WriteBegins(i)
    \/ \E i \in 1..Len(ing) : WriteCompletes(i)
    \/ \E i \in 1..Len(ing) : WriteFails(i)
    \/ \E i \in 1..Len(ing) : DelayOver(i)
    \/ \E i \in 1..Len(ing) : VerifySettles(i)
    \/ \E i \in 1..Len(ing) : CleanupDone(i)
    \/ \E i \in 1..Len(ing) : CleanupFails(i)
    \/ \E i \in 1..Len(ing) : UploadCatchDone(i)
    \/ \E i \in 1..Len(ing) : UploadRetry(i)

DocsNext ==
    \/ UploadPost
    \/ \E i \in 1..Len(ing) : \E sims \in UploadedTexts : ExtractResolves(i, sims)
    \/ \E i \in 1..Len(ing) : ExtractThrows(i)
    \/ \E i \in 1..Len(ing) : \E ok \in {{}, BatchOf(ing[i])} : BatchResolves(i, ok)
    \/ \E i \in 1..Len(ing) : WriteBegins(i)
    \/ \E i \in 1..Len(ing) : WriteCompletes(i)
    \/ \E i \in 1..Len(ing) : WriteFails(i)
    \/ \E i \in 1..Len(ing) : DelayOver(i)
    \/ \E i \in 1..Len(ing) : VerifySettles(i)
    \/ \E i \in 1..Len(ing) : CleanupDone(i)
    \/ \E i \in 1..Len(ing) : CleanupFails(i)
    \/ \E i \in 1..Len(ing) : UploadCatchDone(i)
    \/ \E i \in 1..Len(ing) : UploadRetry(i)
    \/ \E d \in DocIds : DeleteRequest(d)
    \/ \E j \in 1..Len(dels) : DelPathExists(j)
    \/ \E j \in 1..Len(dels) : DelRemove(j)
    \/ \E j \in 1..Len(dels) : DelRemoveFails(j)
    \/ LsCall(RetrieveK)
    \/ \E d \in DOMAIN ls.docs : LsPathExists(d)
    \/ \E d \in DOMAIN ls.docs : LsReadJson(d)
    \/ \E d \in DOMAIN ls.docs : LsWaitOver(d)

(***************************************************************************)
(* The embedding cache: embedText (index.js:2479-2511) and manageCache     *)
(* (index.js:338-350, run every 5 minutes, :353).  A text is modelled by   *)
(* its number in the order of first storing (a text whose embedding        *)
(* failed leaves no trace); the cache, by its entries <<text, vector>> in   *)
(* insertion order.  What r.data?.data?.[0]?.embedding evaluates to is a   *)
(* record: its type, and for an array its items, a number being written as *)
(* its numeral and anything else as "null".                                *)
(*   em.status: "calling"  suspended at await axios.post(...)    (:2488)   *)
(*              "waiting"  suspended at the backoff delay        (:230)    *)
(*              "idle"     no call is running; last tells how the last one *)
(*                         ended: "hit", "stored" or "thrown"              *)
(***************************************************************************)
ArrayResult(items) == [type |-> "array", items |-> items]
Undefined == [type |-> "undefined", items |-> <<>>]
StringResult == [type |-> "string", items |-> <<>>]

\* The vector of a well-formed response.
Vector == ArrayResult(<<"0.1", "0.2">>)

\* What a response can hold where the vector is expected: a vector, another
\* vector, an empty array, an array holding no number, a string, nothing.
Results ==
    {Vector, ArrayResult(<<"0.3">>), ArrayResult(<<>>), ArrayResult(<<"null">>),
     StringResult, Undefined}

\* JavaScript's truthiness and Array.isArray, on these values
Truthy(result) == result.type # "undefined"
IsArray(result) == result.type = "array"

EmIdle ==
    [status |-> "idle", text |-> 0, attempt |-> 0, last |-> "none",
     returned |-> Undefined]

Cached(t) == \E i \in 1..Len(embeddingCache) : embeddingCache[i][1] = t

\* Map.prototype.get of a key that is present
MapGet(map, t) == map[CHOOSE i \in 1..Len(map) : map[i][1] = t][2]

MapSetIgnores(map, t, v) == map

\* Map.prototype.set: a new key goes last, a present key keeps its place.
MapSet(map, t, v) ==
    IF \E i \in 1..Len(map) : map[i][1] = t
    THEN [i \in 1..Len(map) |-> IF map[i][1] = t THEN <<t, v>> ELSE map[i]]
    ELSE Append(map, <<t, v>>)

\* :2480-2488  the cache is consulted; on a miss the first call is issued.
EmbedCall(t) ==
    /\ em.status = "idle"
    /\ t <= MaxTexts
    /\ em' = IF Cached(t) /\ Truthy(MapGet(embeddingCache, t))
             THEN [EmIdle EXCEPT !.text = t, !.last = "hit",
                                 !.returned = MapGet(embeddingCache, t)]
             ELSE [EmIdle EXCEPT !.status = "calling", !.text = t,
                                 !.attempt = 1]
    /\ UNCHANGED <<embeddingCache, texts, chatVars, retryVars, storeVars, searchVars,
                   docVars, chunkVars, startVars, cosineVars, batchVars>>

EmbedNewText == EmbedCall(texts + 1)

EmbedLatestText == texts > 0 /\ EmbedCall(texts)

\* :219-230  retryWithBackoff's catch: the attempt is retried after the
\* backoff, or the last error is thrown out of embedText
EmbedFailure(run) ==
    IF RetryDecision(run.attempt, EmbedRetries, FALSE) = "retry"
    THEN [run EXCEPT !.status = "waiting"]
    ELSE [EmIdle EXCEPT !.text = run.text, !.last = "thrown"]

\* :2500-2510  the call has a response: what it holds passes the check, is
\* stored and returned, or the operation throws.
EmbedResponds(result) ==
    /\ em.status = "calling"
    /\ IF ~Truthy(result) \/ ~IsArray(result)
       THEN /\ em' = EmbedFailure(em)
            /\ UNCHANGED <<embeddingCache, texts>>
       ELSE /\ embeddingCache' = MapSet(embeddingCache, em.text, result)
            /\ em' = [EmIdle EXCEPT !.text = em.text, !.last = "stored",
                                    !.returned = result]
            /\ texts' = IF em.text > texts THEN em.text ELSE texts
    /\ UNCHANGED <<chatVars, retryVars, storeVars, searchVars, docVars, chunkVars, startVars, cosineVars, batchVars>>

\* :2489-2499 and :219-230  the call fails
EmbedAttemptFails ==
    /\ em.status = "calling"
    /\ em' = EmbedFailure(em)
    /\ UNCHANGED <<embeddingCache, texts, chatVars, retryVars, storeVars,
                   searchVars, docVars, chunkVars, startVars, cosineVars, batchVars>>

EmbedBackoffOver ==
    /\ em.status = "waiting"
    /\ em' = [em EXCEPT !.status = "calling", !.attempt = @ + 1]
    /\ UNCHANGED <<embeddingCache, texts, chatVars, retryVars, storeVars,
                   searchVars, docVars, chunkVars, startVars, cosineVars, batchVars>>

\* :338-350
ManageCache ==
    /\ embeddingCache' =
          IF Len(embeddingCache) > MAX_CACHE_SIZE
          THEN SubSeq(embeddingCache, (MAX_CACHE_SIZE * 2) \div 10 + 1,
                      Len(embeddingCache))
          ELSE embeddingCache
    /\ UNCHANGED <<em, texts, chatVars, retryVars, storeVars, searchVars,
                   docVars, chunkVars, startVars, cosineVars, batchVars>>

CacheEmpty ==
    /\ embeddingCache = <<>>
    /\ em = EmIdle
    /\ texts = 0

\* A few texts, embedded again and again, with every kind of response.
EmbedNext ==
    \/ \E t \in 1..MaxKeys : EmbedCall(t)
    \/ \E result \in Results : EmbedResponds(result)
    \/ EmbedAttemptFails
    \/ EmbedBackoffOver
    \/ ManageCache

\* Every response is well formed.
CacheNext ==
    \/ EmbedNewText
    \/ EmbedLatestText
    \/ EmbedResponds(Vector)
    \/ EmbedAttemptFails
    \/ EmbedBackoffOver
    \/ ManageCache

(***************************************************************************)
(* processDocument's chunker (index.js:2568-2581).  A text is a sequence   *)
(* of characters: a positive number is a printing character, named by its  *)
(* position in the extracted text, 0 is a space and -1 a line break.       *)
(***************************************************************************)
chunkSize == 1000
overlap == 200
MinChunkLength == 50

IsSpace(c) == c <= 0

\* text.replace(/\s+/g, ' '): every maximal run of whitespace becomes one space
CollapseSpaces(text) ==
    LET Starts(i) == ~IsSpace(text[i]) \/ i = 1 \/ ~IsSpace(text[i - 1])
        kept == SelectSeq([i \in 1..Len(text) |-> i], Starts)
    IN  [j \in 1..Len(kept) |-> IF IsSpace(text[kept[j]]) THEN 0 ELSE text[kept[j]]]

\* String.prototype.trim: the text from its first to its last printing character
Trim(s) ==
    IF \A i \in 1..Len(s) : IsSpace(s[i]) THEN <<>>
    ELSE LET first == CHOOSE i \in 1..Len(s) :
                          ~IsSpace(s[i]) /\ \A j \in 1..(i - 1) : IsSpace(s[j])
             last == CHOOSE i \in 1..Len(s) :
                          ~IsSpace(s[i]) /\ \A j \in (i + 1)..Len(s) : IsSpace(s[j])
         IN  SubSeq(s, first, last)

CleanText(text) == Trim(CollapseSpaces(text))

\* s.slice(from, to) with 0 <= from <= to, on 0-based positions
Slice(s, from, to) == SubSeq(s, from + 1, Min(to, Len(s)))

\* the loop of index.js:2576: i = 0, step, 2*step, ... while i < length
ChunkStarts(cleanedText) ==
    [j \in 1..((Len(cleanedText) + (chunkSize - overlap) - 1) \div (chunkSize - overlap))
        |-> (j - 1) * (chunkSize - overlap)]

Meaningful(chunk) == Len(Trim(chunk)) > MinChunkLength

ChunksOf(cleanedText) ==
    LET starts == ChunkStarts(cleanedText)
        slices == [j \in 1..Len(starts) |->
                      Slice(cleanedText, starts[j], starts[j] + chunkSize)]
    IN  SelectSeq(slices, Meaningful)

ChunkIdle ==
    ck = [pc |-> "idle", text |-> <<>>, cleanedText |-> <<>>, chunks |-> <<>>]

Extracted(text) ==
    [pc |-> "extracted", text |-> text, cleanedText |-> <<>>, chunks |-> <<>>]

\* index.js:2569-2583: from the extractor's text to the list of chunks
ChunkText ==
    /\ ck.pc = "extracted"
    /\ ck' = [ck EXCEPT !.pc = "chunked",
                        !.cleanedText = CleanText(ck.text),
                        !.chunks = ChunksOf(CleanText(ck.text))]
    /\ UNCHANGED <<chatVars, retryVars, storeVars, searchVars, docVars, cacheVars,
                   startVars, cosineVars, batchVars>>

\* The extracted texts drawn: a length and a layout of the whitespace.
TextLengths ==
    {0, 1, 50, 51, 52, 200, 799, 800, 801, 850, 851, 852, 1000, 1001,
     1650, 1651, 1652, 2400, 2450, 2451, 2452, 3000}
Layouts == {"solid", "words", "ragged"}
TextOf(length, layout) ==
    [i \in 1..length |->
        CASE layout = "solid" -> i
          [] layout = "words" -> IF i % 8 = 4 THEN 0 ELSE i
          [] layout = "ragged" -> IF i % 9 = 0 THEN 0
                                  ELSE IF i % 9 = 1 THEN -1 ELSE i]

ChunksNext ==
    \/ ChunkText

(***************************************************************************)
(* Start-up (index.js:2997-3101): startServer, the runs of warmUpServices  *)
(* (index.js:146-174) with its four checks, the background retry and the   *)
(* health-check timer (index.js:355-377).                                  *)
(***************************************************************************)
startupDelay == 5000

Services == {"azureOpenAI", "azureSearch", "searchIndex", "localSearch"}
Upstream == {"azureOpenAI", "azureSearch", "searchIndex"}

\* What the awaited call of a check can come to.
OpenAIOutcomes == {"embedding", "invalid", "error"}
SearchOutcomes == {"results", "timeout", "error"}
GetIndexOutcomes == {"exists", "404", "error"}
CreateIndexOutcomes == {"created", "error"}
ReaddirOutcomes == {"empty", "files", "error"}
LocalSearchOutcomes == {"found", "error"}

\* :150-155  const results = { azureOpenAI: false, ..., localSearch: false }
NewWarmUp(by, after) ==
    [by |-> by, pc |-> "testAzureOpenAI", after |-> after,
     results |-> [c \in Services |-> FALSE],
     seen |-> [c \in Services |-> "none"]]

\* :3009  the results startServer's catch puts in place of a warm-up that
\* threw (it has no localSearch key, and undefined counts as not ready)
CatchResults == [c \in Services |-> FALSE]

AllReadyWithLocal(results) == \A c \in Services : results[c]

\* :361  health check: results.azureOpenAI && azureSearch && searchIndex
AllReady(results) == \A c \in Upstream : results[c]

\* :3013  startServer: ... && warmUpResults.localSearch
AllServicesReady(results) == \A c \in Services : results[c]

\* boot.observed: whether what a background warm-up returned is looked at
\* after its caller has logged it
BootIdle ==
    [pc |-> "loaded", bot |-> FALSE, listening |-> FALSE,
     retryTimer |-> "none", delayed |-> 0, ticks |-> 0, healthy |-> 0,
     observed |-> FALSE]

StartIdle ==
    /\ boot = BootIdle
    /\ healthCheckInterval = "undefined"
    /\ warmups = <<>>

Running == boot.pc \notin {"loaded", "exited"}

Warming ==
    {w \in 1..Len(warmups) : warmups[w].pc \notin {"returned", "logged", "threw"}}

\* :3044 -> :2381  initializeBot is called: the bot object is created before
\* its first await.
CallInitializeBot(b) == [b EXCEPT !.pc = "initializeBot", !.bot = TRUE]

\* :3015-3023  all ready: the stabilization delay is awaited
ReadyBranchNoDelay(b) == CallInitializeBot(b)

ReadyBranch(b) == [b EXCEPT !.pc = "delay"]

\* :3003-3044  startServer after its warm-up has settled with these results
StartServerContinues(results) ==
    IF AllServicesReady(results)
    THEN /\ boot' = ReadyBranch(boot)
         /\ UNCHANGED healthCheckInterval
    ELSE /\ boot' = CallInitializeBot([boot EXCEPT !.retryTimer = "armed"])
         /\ healthCheckInterval' = "timer"

\* :358-375  the health check after its warm-up has settled; boot.healthy
\* counts the checks that found the three upstream services healthy
HealthCheckContinues(results, threw) ==
    /\ healthCheckInterval' =
          IF ~threw /\ AllReady(results) /\ healthCheckInterval = "timer"
          THEN "null" ELSE healthCheckInterval
    /\ boot' = [boot EXCEPT !.healthy =
                    IF ~threw /\ \A c \in Upstream : results[c]
                    THEN @ + 1 ELSE @]

\* The run w of warmUpServices ends as the record run says, and its caller
\* goes on to its next await.
\* The caller of a background warm-up has logged what it returned (:3034,
\* :371) and is over.
Forgotten(run) ==
    IF run.pc = "returned" /\ run.by # "startup"
    THEN [run EXCEPT !.pc = "logged",
                     !.results = [c \in Services |-> FALSE],
                     !.seen = [c \in Services |-> "none"]]
    ELSE run

\* With boot.observed, what a background warm-up returned is kept until the
\* next one returns.
Settles(w, run) ==
    /\ warmups' =
          IF run.pc \notin {"returned", "threw"}
          THEN [warmups EXCEPT ![w] = run]
          ELSE [v \in 1..Len(warmups) |->
                   IF v # w THEN Forgotten(warmups[v])
                   ELSE IF boot.observed THEN run ELSE Forgotten(run)]
    /\ CASE run.pc \notin {"returned", "threw"} ->
                UNCHANGED <<boot, healthCheckInterval>>
         [] run.pc \in {"returned", "threw"} /\ run.by = "startup" ->
                StartServerContinues(IF run.pc = "threw" THEN CatchResults
                                     ELSE run.results)
         [] run.pc \in {"returned", "threw"} /\ run.by = "health" ->
                HealthCheckContinues(run.results, run.pc = "threw")
         [] run.pc \in {"returned", "threw"} /\ run.by = "retry" ->
                UNCHANGED <<boot, healthCheckInterval>>
    /\ UNCHANGED <<chatVars, retryVars, storeVars, searchVars, docVars,
                   cacheVars, chunkVars, cosineVars, batchVars>>

Checked(run, check, outcome, value, next) ==
    [run EXCEPT !.results[check] = value, !.seen[check] = outcome, !.pc = next]

\* :3151, :2997-3005  startServer() at the end of the module
StartServer ==
    /\ boot.pc = "loaded"
    /\ boot' = [boot EXCEPT !.pc = "warmUp"]
    /\ warmups' = Append(warmups, NewWarmUp("startup", 0))
    /\ UNCHANGED <<healthCheckInterval, chatVars, retryVars, storeVars,
                   searchVars, docVars, cacheVars, chunkVars, cosineVars, batchVars>>

\* :16-56  testAzureOpenAI
OpenAISettles(w, outcome) ==
    /\ Running
    /\ warmups[w].pc = "testAzureOpenAI"
    /\ Settles(w, Checked(warmups[w], "azureOpenAI", outcome,
                          outcome = "embedding", "testAzureSearch"))

\* :58-90  testAzureSearch
SearchSettles(w, outcome) ==
    /\ Running
    /\ warmups[w].pc = "testAzureSearch"
    /\ Settles(w, Checked(warmups[w], "azureSearch", outcome,
                          outcome = "results", "getIndex"))

\* :140-143  ensureSearchIndex's outer catch
IndexCatchRethrows(run, outcome) ==
    [run EXCEPT !.seen["searchIndex"] = outcome, !.pc = "threw"]

IndexCatch(run, outcome) ==
    Checked(run, "searchIndex", outcome, FALSE, "pathExists")

\* :92-106, :135-137  ensureSearchIndex: getIndex
GetIndexSettles(w, outcome) ==
    /\ Running
    /\ warmups[w].pc = "getIndex"
    /\ Settles(w, CASE outcome = "exists" ->
                         Checked(warmups[w], "searchIndex", outcome, TRUE,
                                 "pathExists")
                    [] outcome = "404" ->
                         [warmups[w] EXCEPT !.pc = "createIndex"]
                    [] OTHER -> IndexCatch(warmups[w], outcome))

\* :107-134  ensureSearchIndex: createIndex
CreateIndexSettles(w, outcome) ==
    /\ Running
    /\ warmups[w].pc = "createIndex"
    /\ Settles(w, IF outcome = "created"
                  THEN Checked(warmups[w], "searchIndex", outcome, TRUE,
                               "pathExists")
                  ELSE IndexCatch(warmups[w], "create-error"))

\* :176-183  testLocalSearch: fs.pathExists(documentsDir)
PathExistsResolves(w, exists) ==
    /\ Running
    /\ warmups[w].pc = "pathExists"
    /\ Settles(w, IF exists THEN [warmups[w] EXCEPT !.pc = "readdir"]
                  ELSE Checked(warmups[w], "localSearch", "no-directory",
                               TRUE, "returned"))

\* :185-189, :203-208  testLocalSearch: fs.readdir(documentsDir)
ReaddirSettles(w, outcome) ==
    /\ Running
    /\ warmups[w].pc = "readdir"
    /\ Settles(w, CASE outcome = "error" ->
                         Checked(warmups[w], "localSearch", "readdir-error",
                                 FALSE, "returned")
                    [] outcome = "files" /\ uploadedDocuments # <<>> ->
                         [warmups[w] EXCEPT !.pc = "localSearch"]
                    [] OTHER ->
                         Checked(warmups[w], "localSearch", outcome, TRUE,
                                 "returned"))

\* :189-203  testLocalSearch: the test search, whose failure is only logged
LocalSearchSettles(w, outcome) ==
    /\ Running
    /\ warmups[w].pc = "localSearch"
    /\ Settles(w, Checked(warmups[w], "localSearch",
                          IF outcome = "found" THEN "searched"
                          ELSE "search-error",
                          TRUE, "returned"))

\* :3021-3023  the stabilization delay is over
StartupDelayOver ==
    /\ boot.pc = "delay"
    /\ boot' = CallInitializeBot([boot EXCEPT !.delayed = startupDelay])
    /\ UNCHANGED <<healthCheckInterval, warmups, chatVars, retryVars,
                   storeVars, searchVars, docVars, cacheVars, chunkVars, cosineVars, batchVars>>

\* :2381-2464, :3044-3099  initializeBot settles: the server listens, or the
\* webhook could not be set (:2441-2444) and the process exits (:3097-3099)
InitializeBotSettles(ok) ==
    /\ boot.pc = "initializeBot"
    /\ boot' = IF ok THEN [boot EXCEPT !.pc = "listening", !.listening = TRUE]
               ELSE [boot EXCEPT !.pc = "exited"]
    /\ UNCHANGED <<healthCheckInterval, warmups, chatVars, retryVars,
                   storeVars, searchVars, docVars, cacheVars, chunkVars, cosineVars, batchVars>>

\* :3030-3038  the background retry, 10 s after it was scheduled
RetryTimerFires ==
    /\ Running
    /\ boot.retryTimer = "armed"
    /\ Cardinality(Warming) < MaxWarming
    /\ boot' = [boot EXCEPT !.retryTimer = "fired"]
    /\ warmups' = Append(warmups, NewWarmUp("retry", boot.healthy))
    /\ UNCHANGED <<healthCheckInterval, chatVars, retryVars, storeVars,
                   searchVars, docVars, cacheVars, chunkVars, cosineVars, batchVars>>

\* :357-359  a tick of the health-check interval
HealthTick ==
    /\ Running
    /\ healthCheckInterval = "timer"
    /\ boot.ticks < MaxChecks
    /\ Cardinality(Warming) < MaxWarming
    /\ boot' = [boot EXCEPT !.ticks = @ + 1]
    /\ warmups' = Append(warmups, NewWarmUp("health", boot.healthy))
    /\ UNCHANGED <<healthCheckInterval, chatVars, retryVars, storeVars,
                   searchVars, docVars, cacheVars, chunkVars, cosineVars, batchVars>>

\* Start-up with, for every check, the call that succeeds and one that fails.
StartupNext ==
    \/ StartServer
    \/ \E w \in 1..Len(warmups) : \E o \in {"embedding", "error"} : OpenAISettles(w, o)
    \/ \E w \in 1..Len(warmups) : \E o \in {"results", "timeout"} : SearchSettles(w, o)
    \/ \E w \in 1..Len(warmups) : \E o \in {"exists", "error"} : GetIndexSettles(w, o)
    \/ \E w \in 1..Len(warmups) : PathExistsResolves(w, TRUE)
    \/ \E w \in 1..Len(warmups) : \E o \in {"empty", "error"} : ReaddirSettles(w, o)
    \/ StartupDelayOver
    \/ \E ok \in BOOLEAN : InitializeBotSettles(ok)
    \/ RetryTimerFires
    \/ HealthTick

\* A warm-up that has returned with every check failed.
NothingReady(by) ==
    [by |-> by, pc |-> "returned", after |-> 0,
     results |-> [c \in Services |-> FALSE],
     seen |-> [c \in Services |->
                  IF c = "localSearch" THEN "readdir-error" ELSE "error"]]

\* The health checks alone, one after the other, with every outcome of every
\* check.
WarmUpNext ==
    \/ Warming = {} /\ HealthTick
    \/ \E w \in 1..Len(warmups) : \E o \in OpenAIOutcomes : OpenAISettles(w, o)
    \/ \E w \in 1..Len(warmups) : \E o \in SearchOutcomes : SearchSettles(w, o)
    \/ \E w \in 1..Len(warmups) : \E o \in GetIndexOutcomes : GetIndexSettles(w, o)
    \/ \E w \in 1..Len(warmups) : \E o \in CreateIndexOutcomes : CreateIndexSettles(w, o)
    \/ \E w \in 1..Len(warmups) : \E e \in BOOLEAN : PathExistsResolves(w, e)
    \/ \E w \in 1..Len(warmups) : \E o \in ReaddirOutcomes : ReaddirSettles(w, o)
    \/ \E w \in 1..Len(warmups) : \E o \in LocalSearchOutcomes : LocalSearchSettles(w, o)

(***************************************************************************)
(* Numbers.  A JavaScript number is an IEEE 754 double: 53 significant     *)
(* bits, and the result of every operation is the exact result rounded to  *)
(* the nearest double, ties to even.  A positive double is modelled as     *)
(* [m, e], its value m * 2^e with 2^52 <= m < 2^53; m is a natural number  *)
(* held in Limbs digits of LimbBits bits, lowest first.  (The vectors of   *)
(* the model have small whole components, so sums and products of          *)
(* components are exact and neither overflow nor subnormals arise.)        *)
(***************************************************************************)
LimbBits == 14
SignificandBits == 53

Pow2(k) == 2 ^ k

Base == Pow2(LimbBits)

\* The number whose digit i is Digit(i).
Digits(Digit(_)) ==
    <<Digit(1), Digit(2), Digit(3), Digit(4), Digit(5), Digit(6), Digit(7),
      Digit(8)>>

BigZero == Digits(LAMBDA i : 0)

Limbs == Len(BigZero)

\* A natural number below 2^31 as digits.
Big(n) ==
    Digits(LAMBDA i :
        CASE i = 1 -> n % Base
          [] i = 2 -> (n \div Base) % Base
          [] i = 3 -> (n \div Base) \div Base
          [] OTHER -> 0)

LimbAt(x, i) == IF i \in 1..Limbs THEN x[i] ELSE 0

ShiftLeft(x, s) ==
    LET q == s \div LimbBits
        r == s % LimbBits
    IN  Digits(LAMBDA i :
            (LimbAt(x, i - q) % Pow2(LimbBits - r)) * Pow2(r)
              + LimbAt(x, i - q - 1) \div Pow2(LimbBits - r))

ShiftRight(x, s) ==
    LET q == s \div LimbBits
        r == s % LimbBits
    IN  Digits(LAMBDA i :
            LimbAt(x, i + q) \div Pow2(r)
              + (LimbAt(x, i + q + 1) % Pow2(r)) * Pow2(LimbBits - r))

\* Bit b of x, the lowest being bit 0.
Bit(x, b) == (LimbAt(x, b \div LimbBits + 1) \div Pow2(b % LimbBits)) % 2

BitLength(x) ==
    IF x = BigZero THEN 0
    ELSE LET top == CHOOSE i \in 1..Limbs :
                        x[i] # 0 /\ \A j \in (i + 1)..Limbs : x[j] = 0
             k == CHOOSE k \in 1..LimbBits :
                        Pow2(k - 1) <= x[top] /\ x[top] < Pow2(k)
         IN  (top - 1) * LimbBits + k

BigGE(x, y) ==
    LET d == {i \in 1..Limbs : x[i] # y[i]}
    IN  \/ d = {}
        \/ LET t == CHOOSE i \in d : \A j \in d : j <= i
           IN  x[t] > y[t]

RECURSIVE Carry(_, _, _)
Carry(x, y, i) ==
    IF i = 1 THEN 0 ELSE (x[i - 1] + y[i - 1] + Carry(x, y, i - 1)) \div Base

BigAdd(x, y) == Digits(LAMBDA i : (x[i] + y[i] + Carry(x, y, i)) % Base)

RECURSIVE Borrow(_, _, _)
Borrow(x, y, i) ==
    IF i = 1 THEN 0
    ELSE IF x[i - 1] - y[i - 1] - Borrow(x, y, i - 1) < 0 THEN 1 ELSE 0

\* x - y, for x >= y.
BigSub(x, y) ==
    Digits(LAMBDA i : (x[i] - y[i] - Borrow(x, y, i) + Base) % Base)

\* x * y, for x and y below 2^56 (four digits each).
Column(x, y, k) ==
    LET Term(i, j) == IF i \in 1..4 /\ j \in 1..4 THEN x[i] * y[j] ELSE 0
    IN  Term(1, k) + Term(2, k - 1) + Term(3, k - 2) + Term(4, k - 3)

RECURSIVE MulCarry(_, _, _)
MulCarry(x, y, k) ==
    IF k = 1 THEN 0
    ELSE (Column(x, y, k - 1) + MulCarry(x, y, k - 1)) \div Base

BigMul(x, y) ==
    Digits(LAMBDA k : (Column(x, y, k) + MulCarry(x, y, k)) % Base)

\* The double nearest to x * 2^e (above it by less than one unit of x when
\* `inexact`), ties to even.
Round(x, e, inexact) ==
    LET s == BitLength(x) - SignificandBits
    IN  IF s <= 0 THEN [m |-> ShiftLeft(x, 0 - s), e |-> e + s]
        ELSE LET q == ShiftRight(x, s)
                 half == Bit(x, s - 1) = 1
                 rest == inexact \/ \E b \in 0..(s - 2) : Bit(x, b) = 1
                 up == half /\ (rest \/ Bit(q, 0) = 1)
                 r == IF up THEN BigAdd(q, Big(1)) ELSE q
             IN  IF BitLength(r) > SignificandBits
                 THEN [m |-> ShiftRight(r, 1), e |-> e + s + 1]
                 ELSE [m |-> r, e |-> e + s]

Zero == [m |-> BigZero, e |-> 0]

\* The double of a positive whole number.
Number(n) == Round(Big(n), 0, FALSE)

\* x > y, for positive doubles.
GreaterThan(x, y) ==
    \/ x.e > y.e
    \/ x.e = y.e /\ x.m # y.m /\ BigGE(x.m, y.m)

\* x * y
Times(x, y) == Round(BigMul(x.m, y.m), x.e + y.e, FALSE)

\* One step of the whole square root of N, for the bit pair s.i of N: s holds
\* the root and the remainder so far.
SqrtPair(N, s) ==
    LET r == BigAdd(ShiftLeft(s.rem, 2),
                    Big(2 * Bit(N, 2 * s.i + 1) + Bit(N, 2 * s.i)))
        trial == BigAdd(ShiftLeft(s.root, 2), Big(1))
        root == ShiftLeft(s.root, 1)
    IN  IF BigGE(r, trial)
        THEN [root |-> BigAdd(root, Big(1)), rem |-> BigSub(r, trial), i |-> s.i - 1]
        ELSE [root |-> root, rem |-> r, i |-> s.i - 1]

\* k steps from s on; the first half is computed before the second begins.
RECURSIVE SqrtPairs(_, _, _)
SqrtPairs(N, k, s) ==
    IF k = 0 THEN s
    ELSE IF k = 1 THEN SqrtPair(N, s)
    ELSE CHOOSE r \in {SqrtPairs(N, k \div 2, h) :
                          h \in {SqrtPairs(N, k - (k \div 2), s)}} : TRUE

\* Math.sqrt(n) for a positive whole number n: the root of n * 2^shift to 54
\* bits, rounded.
MathSqrt(n) ==
    LET b == BitLength(Big(n))
        shift == IF (108 - b) % 2 = 0 THEN 108 - b ELSE 107 - b
        res == SqrtPairs(ShiftLeft(Big(n), shift), 54,
                         [root |-> BigZero, rem |-> BigZero, i |-> 53])
    IN  Round(res.root, 0 - (shift \div 2), res.rem # BigZero)

\* One bit of the quotient by m: s holds the quotient and the remainder so
\* far.
DivBit(m, s) ==
    LET q == ShiftLeft(s.q, 1)
        r == ShiftLeft(s.rem, 1)
    IN  IF BigGE(r, m)
        THEN [q |-> BigAdd(q, Big(1)), rem |-> BigSub(r, m)]
        ELSE [q |-> q, rem |-> r]

\* k bits from s on; the first half is computed before the second begins.
RECURSIVE DivBits(_, _, _)
DivBits(m, k, s) ==
    IF k = 0 THEN s
    ELSE IF k = 1 THEN DivBit(m, s)
    ELSE CHOOSE r \in {DivBits(m, k \div 2, h) :
                          h \in {DivBits(m, k - (k \div 2), s)}} : TRUE

\* d / y for a positive whole number d and a positive double y: the
\* quotient to 55 bits or more, rounded.
Over(d, y) ==
    LET j == 108 - BitLength(Big(d))
        res == DivBits(y.m, j, [q |-> BigZero, rem |-> Big(d)])
    IN  Round(res.q, 0 - j - y.e, res.rem # BigZero)

(***************************************************************************)
(* calculateCosineSimilarity (index.js:2829-2862).  A vector is a sequence *)
(* of whole numbers; an argument is an array of them or no array, as in    *)
(* ArrayResult and Undefined.                                              *)
(***************************************************************************)
Abs(x) == IF x < 0 THEN 0 - x ELSE x

EarlyIndex == 100       \* index.js:2850  i > 100
EarlyGap == 10          \* index.js:2850  Math.abs(normA - normB) > 10

\* :2841-2854  one pass of the loop body, at (0-based) index s.i with the
\* sums so far; nothing more is done once the loop has ended or was left.
AccumulateStep(vecA, vecB, s) ==
    IF s.earlyTermination \/ s.i >= Len(vecA) THEN s
    ELSE LET a == vecA[s.i + 1]
             b == vecB[s.i + 1]
             d == s.dotProduct + a * b
             na == s.normA + a * a
             nb == s.normB + b * b
         IN  [i |-> s.i + 1, dotProduct |-> d, normA |-> na, normB |-> nb,
              earlyTermination |-> s.i > EarlyIndex /\ Abs(na - nb) > EarlyGap]

\* k passes from s on; the first half is computed before the second begins.
RECURSIVE AccumulateSteps(_, _, _, _)
AccumulateSteps(vecA, vecB, k, s) ==
    IF k = 0 THEN s
    ELSE IF k = 1 THEN AccumulateStep(vecA, vecB, s)
    ELSE CHOOSE r \in {AccumulateSteps(vecA, vecB, k \div 2, h) :
                          h \in {AccumulateSteps(vecA, vecB, k - (k \div 2), s)}} :
             TRUE

\* :2841-2854  the loop from (0-based) index i on, with the sums so far.
Accumulate(vecA, vecB, i, dotProduct, normA, normB) ==
    LET s == AccumulateSteps(vecA, vecB, Len(vecA) - i,
                             [i |-> i, dotProduct |-> dotProduct,
                              normA |-> normA, normB |-> normB,
                              earlyTermination |-> FALSE])
    IN  [dotProduct |-> s.dotProduct, normA |-> s.normA, normB |-> s.normB,
         earlyTermination |-> s.earlyTermination]

\* :2861  0.05
LowSimilarity == Over(1, Number(20))

\* :2858  dotProduct / (Math.sqrt(normA) * Math.sqrt(normB)), for a positive
\* dotProduct.
Quotient(dotProduct, normA, normB) ==
    Over(dotProduct, Times(MathSqrt(normA), MathSqrt(normB)))

calculateCosineSimilarity(vecA, vecB) ==
    IF ~IsArray(vecA) \/ ~IsArray(vecB) THEN Zero
    ELSE IF Len(vecA.items) # Len(vecB.items) THEN Zero
    ELSE LET sums == Accumulate(vecA.items, vecB.items, 0, 0, 0, 0)
         IN  IF sums.earlyTermination \/ sums.normA = 0 \/ sums.normB = 0
             THEN Zero
             ELSE IF sums.dotProduct <= 0
             THEN Zero              \* a quotient <= 0 is not > 0.05
             ELSE LET similarity ==
                         Quotient(sums.dotProduct, sums.normA, sums.normB)
                  IN  IF GreaterThan(similarity, LowSimilarity)
                      THEN similarity ELSE Zero

\* The arguments: no array, or a vector of up to MaxDim components.
Components == (0 - 1)..MaxComponent

Vectors ==
    {Undefined} \cup
    {ArrayResult(v) : v \in UNION {[1..n -> Components] : n \in 0..MaxDim}}

VsIdle == [pc |-> "idle", vector |-> Undefined, chunks |-> <<>>, k |-> 0,
           results |-> <<>>]

CosineIdle ==
    /\ cs = [pc |-> "idle", vecA |-> Undefined, vecB |-> Undefined,
             similarity |-> Zero]
    /\ vs = VsIdle

CosineReturns ==
    /\ cs.pc = "called"
    /\ cs' = [cs EXCEPT !.pc = "returned",
                        !.similarity = calculateCosineSimilarity(cs.vecA, cs.vecB)]
    /\ UNCHANGED <<vs, chatVars, retryVars, storeVars, searchVars, docVars,
                   cacheVars, chunkVars, startVars, batchVars>>

CosineNext ==
    \/ CosineReturns

(***************************************************************************)
(* The chunks of one document scored against the query vector             *)
(* (index.js:2791-2812) and the search's final cut (:2822-2826), with the  *)
(* similarities as the doubles calculateCosineSimilarity returns.          *)
(* vs.chunks lists the contentVector of every chunk of the file.           *)
(***************************************************************************)
\* :2753  similarityThreshold = 0.1
SimilarityFloor == Over(1, Number(10))

\* x > y, for doubles that are zero or positive.
Exceeds(x, y) == x # Zero /\ (y = Zero \/ GreaterThan(x, y))

\* sort((a, b) => b.similarity - a.similarity): descending, and stable.
RankedBySimilarity(s) ==
    LET n == Len(s)
        Rank(i) == 1 + Cardinality({j \in 1..n :
                        \/ Exceeds(s[j].similarity, s[i].similarity)
                        \/ s[j].similarity = s[i].similarity /\ j < i})
    IN  [r \in 1..n |-> s[CHOOSE i \in 1..n : Rank(i) = r]]

\* :2795  the similarity of every chunk from the n-th on, in file order.
RECURSIVE Similarities(_, _, _)
Similarities(vector, chunks, n) ==
    IF n > Len(chunks) THEN <<>>
    ELSE <<calculateCosineSimilarity(vector, chunks[n])>>
            \o Similarities(vector, chunks, n + 1)

\* :2793-2806  the chunks that pass the floor, in file order; n tells the
\* chunk.
ChunkResults(similarities, chunks) ==
    SelectSeq([n \in 1..Len(chunks) |->
                  [n |-> n, similarity |-> similarities[n]]],
              LAMBDA c : /\ IsArray(chunks[c.n])
                         /\ Exceeds(c.similarity, SimilarityFloor))

\* :2808-2812 and :2822-2826  one document's passages, then the search's cut.
ScoredTopK(similarities, chunks, k) ==
    SliceFirst(
        RankedBySimilarity(
            SliceFirst(RankedBySimilarity(ChunkResults(similarities, chunks)),
                       CeilHalf(k))),
        k)

VsReturns ==
    /\ vs.pc = "called"
    /\ vs' = [vs EXCEPT !.pc = "returned",
                        !.results =
                           ScoredTopK(Similarities(vs.vector, vs.chunks, 1),
                                      vs.chunks, vs.k)]
    /\ UNCHANGED <<cs, chatVars, retryVars, storeVars, searchVars, docVars,
                   cacheVars, chunkVars, startVars, batchVars>>

ScoreNext ==
    \/ VsReturns

\* The vector v, repeated up to length n.
Repeated(v, n) == ArrayResult([j \in 1..n |-> v[((j - 1) % Len(v)) + 1]])

(***************************************************************************)
(* The batch loop of processDocument (index.js:2585-2625), call by call.   *)
(* bt.sims lists the chunks, bt.batch is the loop's i, bt.calls tells for  *)
(* every chunk where its embedText call is: "unissued", "pending" (the     *)
(* callback of batch.map is suspended at await embedText, :2599), "vector" *)
(* or "null" (what the callback returned, :2604-2611); bt.embedded is the  *)
(* array `embeddings`.                                                     *)
(*   pc: "chunked"  the chunks are cut, the loop not yet entered           *)
(*       "await"    suspended at await Promise.all(batchPromises) (:2615)  *)
(*       "stored"   the loop is over (:2627)                               *)
(***************************************************************************)
BatchIdle == bt = [pc |-> "idle", sims |-> <<>>, batch |-> 0, calls |-> <<>>,
                   embedded |-> <<>>]

Pending(r) == {n \in 1..Len(r.calls) : r.calls[n] = "pending"}

\* :2588-2613  the loop head with i = r.batch: the calls of the next batch
\* are all issued, or the loop is over.
IssueBatch(r) ==
    IF r.batch < Len(r.sims)
    THEN [r EXCEPT !.pc = "await",
                   !.calls = [n \in 1..Len(r.sims) |->
                                 IF n \in BatchOf(r) THEN "pending" ELSE @[n]]]
    ELSE [r EXCEPT !.pc = "stored"]

\* :2587-2588  the loop is entered.
BatchLoopEnters ==
    /\ bt.pc = "chunked"
    /\ bt' = IssueBatch(bt)
    /\ UNCHANGED <<chatVars, retryVars, storeVars, searchVars, docVars,
                   cacheVars, chunkVars, startVars, cosineVars>>

\* :2599-2612  the embedText call of chunk n settles: its callback returns
\* the chunk with its vector, or null.
EmbedSettles(n, out) ==
    /\ bt.pc = "await"
    /\ n \in Pending(bt)
    /\ bt' = [bt EXCEPT !.calls[n] = out]
    /\ UNCHANGED <<chatVars, retryVars, storeVars, searchVars, docVars,
                   cacheVars, chunkVars, startVars, cosineVars>>

\* :2615-2625 then :2588  every callback of the batch has returned:
\* Promise.all resolves, the valid results are pushed in the batch's order,
\* and the loop goes on.
BatchResumes ==
    /\ bt.pc = "await"
    /\ Pending(bt) = {}
    /\ LET validResults ==
               SelectSeq([n \in 1..Len(bt.sims) |-> [n |-> n, sim |-> bt.sims[n]]],
                         LAMBDA c : c.n \in BatchOf(bt) /\ bt.calls[c.n] = "vector")
       IN  bt' = IssueBatch([bt EXCEPT !.embedded = @ \o validResults,
                                       !.batch = @ + BATCH_SIZE])
    /\ UNCHANGED <<chatVars, retryVars, storeVars, searchVars, docVars,
                   cacheVars, chunkVars, startVars, cosineVars>>

BatchNext ==
    \/ BatchLoopEnters
    \/ \E n \in 1..Len(bt.calls) : \E out \in {"vector", "null"} : EmbedSettles(n, out)
    \/ BatchResumes

(***************************************************************************)
(* Specifications.                                                         *)
(***************************************************************************)
Init ==
    /\ ChatInit
    /\ counting = FALSE
    /\ rt = RtIdle
    /\ StoreEmpty
    /\ ls = LsIdle
    /\ rv = RvIdle
    /\ DocsIdle
    /\ CacheEmpty
    /\ ChunkIdle
    /\ StartIdle
    /\ CosineIdle
    /\ BatchIdle

Spec == Init /\ [][ChatNext]_vars

InitChannels ==
    /\ ChatInit
    /\ counting = TRUE
    /\ rt = RtIdle
    /\ StoreEmpty
    /\ ls = LsIdle
    /\ rv = RvIdle
    /\ DocsIdle
    /\ CacheEmpty
    /\ ChunkIdle
    /\ StartIdle
    /\ CosineIdle
    /\ BatchIdle

SpecChannels == InitChannels /\ [][ChannelsNext]_vars

InitRetry ==
    /\ ChatInit
    /\ counting = FALSE
    /\ RetryInit
    /\ StoreEmpty
    /\ ls = LsIdle
    /\ rv = RvIdle
    /\ DocsIdle
    /\ CacheEmpty
    /\ ChunkIdle
    /\ StartIdle
    /\ CosineIdle
    /\ BatchIdle

SpecRetry == InitRetry /\ [][RetryNext]_vars

\* A retrieval over a store of up to MaxDocs documents whose files are
\* complete, corrupt or missing.
InitRetrieve ==
    /\ ChatInit
    /\ counting = FALSE
    /\ rt = RtIdle
    /\ files \in [DocIds -> FileChoices]
    /\ \E n \in 0..MaxDocs :
          uploadedDocuments =
             [i \in 1..n |-> [id |-> i, chunks |-> Len(files[i].chunks),
                              embeddings |-> Len(files[i].chunks)]]
    /\ \A d \in DocIds : d \notin CatalogIds => files[d] = NoFile
    /\ ls = LsIdle
    /\ rv = RvIdle
    /\ DocsIdle
    /\ CacheEmpty
    /\ ChunkIdle
    /\ StartIdle
    /\ CosineIdle
    /\ BatchIdle

SpecRetrieve == InitRetrieve /\ [][RetrieveNext]_vars

\* One local-store search over a static store, from its call on.
LocalNext ==
    \/ \E d \in DOMAIN ls.docs : LsPathExists(d)
    \/ \E d \in DOMAIN ls.docs : LsReadJson(d)
    \/ \E d \in DOMAIN ls.docs : LsWaitOver(d)

InitLocal ==
    /\ ChatInit
    /\ counting = FALSE
    /\ rt = RtIdle
    /\ files \in [DocIds -> FileChoices]
    /\ \E n \in 0..MaxDocs :
          uploadedDocuments =
             [i \in 1..n |-> [id |-> i, chunks |-> Len(files[i].chunks),
                              embeddings |-> Len(files[i].chunks)]]
    /\ \A d \in DocIds : d \notin CatalogIds => files[d] = NoFile
    /\ \E k \in 1..MaxK : ls = LsCalled(k)
    /\ rv = RvIdle
    /\ DocsIdle
    /\ CacheEmpty
    /\ ChunkIdle
    /\ StartIdle
    /\ CosineIdle
    /\ BatchIdle

\* Every pending promise and timer settles in the end, as Node's event loop
\* has it.
SpecLocal == InitLocal /\ [][LocalNext]_vars /\ WF_vars(LocalNext)

\* A delete and a local search side by side, in either order, on a store of
\* documents uploaded earlier.
SearchDeleteNext ==
    \/ \E d \in DocIds : DeleteRequest(d)
    \/ \E j \in 1..Len(dels) : DelPathExists(j)
    \/ \E j \in 1..Len(dels) : DelRemove(j)
    \/ \E j \in 1..Len(dels) : DelRemoveFails(j)
    \/ LsCall(RetrieveK)
    \/ \E d \in DOMAIN ls.docs : LsPathExists(d)
    \/ \E d \in DOMAIN ls.docs : LsReadJson(d)
    \/ \E d \in DOMAIN ls.docs : LsWaitOver(d)

InitSearchDelete ==
    /\ ChatInit
    /\ counting = FALSE
    /\ rt = RtIdle
    /\ files \in [DocIds -> FileChoices]
    /\ \E n \in 0..MaxDocs :
          uploadedDocuments =
             [i \in 1..n |-> [id |-> i, chunks |-> Len(files[i].chunks),
                              embeddings |-> Len(files[i].chunks)]]
    /\ \A d \in DocIds : d \notin CatalogIds => files[d] = NoFile
    /\ ls = LsIdle
    /\ rv = RvIdle
    /\ DocsIdle
    /\ CacheEmpty
    /\ ChunkIdle
    /\ StartIdle
    /\ CosineIdle
    /\ BatchIdle

\* Every pending promise and timer of the search settles in the end; no
\* request has to arrive.
SpecSearchDelete ==
    InitSearchDelete /\ [][SearchDeleteNext]_vars /\ WF_vars(LocalNext)

\* Uploads, deletes and one local search side by side.
InitDocs ==
    /\ ChatInit
    /\ counting = FALSE
    /\ rt = RtIdle
    /\ StoreEmpty
    /\ ls = LsIdle
    /\ rv = RvIdle
    /\ DocsIdle
    /\ CacheEmpty
    /\ ChunkIdle
    /\ StartIdle
    /\ CosineIdle
    /\ BatchIdle

SpecDocs == InitDocs /\ [][DocsNext]_vars

\* Deletions alone, on a store of documents uploaded earlier.
DeleteNext ==
    \/ \E d \in DocIds : DeleteRequest(d)
    \/ \E j \in 1..Len(dels) : DelPathExists(j)
    \/ \E j \in 1..Len(dels) : DelRemove(j)
    \/ \E j \in 1..Len(dels) : DelRemoveFails(j)

InitDelete ==
    /\ ChatInit
    /\ counting = FALSE
    /\ rt = RtIdle
    /\ files \in [DocIds -> FileChoices]
    /\ \E n \in 0..MaxDocs :
          uploadedDocuments =
             [i \in 1..n |-> [id |-> i, chunks |-> Len(files[i].chunks),
                              embeddings |-> Len(files[i].chunks)]]
    /\ \A d \in DocIds : d \notin CatalogIds => files[d] = NoFile
    /\ ls = LsIdle
    /\ rv = RvIdle
    /\ DocsIdle
    /\ CacheEmpty
    /\ ChunkIdle
    /\ StartIdle
    /\ CosineIdle
    /\ BatchIdle

SpecDelete == InitDelete /\ [][DeleteNext]_vars

\* Uploads alone.
InitIngest ==
    /\ ChatInit
    /\ counting = FALSE
    /\ rt = RtIdle
    /\ StoreEmpty
    /\ ls = LsIdle
    /\ rv = RvIdle
    /\ DocsIdle
    /\ CacheEmpty
    /\ ChunkIdle
    /\ StartIdle
    /\ CosineIdle
    /\ BatchIdle

SpecIngest == InitIngest /\ [][IngestNext]_vars

\* Texts are embedded one after the other while the cleanup timer fires.
InitCache ==
    /\ ChatInit
    /\ counting = FALSE
    /\ rt = RtIdle
    /\ StoreEmpty
    /\ ls = LsIdle
    /\ rv = RvIdle
    /\ DocsIdle
    /\ CacheEmpty
    /\ ChunkIdle
    /\ StartIdle
    /\ CosineIdle
    /\ BatchIdle

SpecCache == InitCache /\ [][CacheNext]_vars

\* embedText called for one text after the other, whatever the responses.
InitEmbed ==
    /\ ChatInit
    /\ counting = FALSE
    /\ rt = RtIdle
    /\ StoreEmpty
    /\ ls = LsIdle
    /\ rv = RvIdle
    /\ DocsIdle
    /\ CacheEmpty
    /\ ChunkIdle
    /\ StartIdle
    /\ CosineIdle
    /\ BatchIdle

SpecEmbed == InitEmbed /\ [][EmbedNext]_vars

\* The Telegram transport on conversations that already hold some turns.
InitPrompt ==
    /\ \E k \in 0..MaxEarlier : history = [c \in ChatIds |-> Earlier(k)]
    /\ reqs = <<>>
    /\ epoch = [c \in ChatIds |-> 0]
    /\ counting = FALSE
    /\ rt = RtIdle
    /\ StoreEmpty
    /\ ls = LsIdle
    /\ rv = RvIdle
    /\ DocsIdle
    /\ CacheEmpty
    /\ ChunkIdle
    /\ StartIdle
    /\ CosineIdle
    /\ BatchIdle

SpecPrompt == InitPrompt /\ [][ChatNext]_vars

\* A few requests on either transport, followed call by call, on
\* conversations that already hold some turns.
AskTelegram ==
    /\ Len(reqs) < MaxAsked
    /\ TelegramMessage

AskChat ==
    /\ Len(reqs) < MaxAsked
    /\ ChatPost

ReplyNext ==
    \/ AskTelegram
    \/ AskChat
    \/ \E i \in 1..Len(reqs), res \in RetrieveOutcomes : RetrieveResolves(i, res)
    \/ \E i \in 1..Len(reqs) : \E data \in CompletionData(i) : CompletionSucceeds(i, data)
    \/ \E i \in 1..Len(reqs) : CompletionFails(i)
    \/ \E i \in 1..Len(reqs) : ChatRetry(i)

InitReply ==
    /\ \E k \in 0..MaxEarlier : history = [c \in ChatIds |-> Earlier(k)]
    /\ reqs = <<>>
    /\ epoch = [c \in ChatIds |-> 0]
    /\ counting = TRUE
    /\ rt = RtIdle
    /\ StoreEmpty
    /\ ls = LsIdle
    /\ rv = RvIdle
    /\ DocsIdle
    /\ CacheEmpty
    /\ ChunkIdle
    /\ StartIdle
    /\ CosineIdle
    /\ BatchIdle

SpecReply == InitReply /\ [][ReplyNext]_vars

\* Both transports and /reset, on conversations that already hold
\* MaxEarlier turns between them, split in every way.
ConversationsNext ==
    \/ TelegramMessage
    \/ ChatPost
    \/ ResetCommand
    \/ \E i \in 1..Len(reqs), res \in RetrieveOutcomes : RetrieveResolves(i, res)
    \/ \E i \in 1..Len(reqs) : CompletionSucceeds(i, <<"reply", i>>)
    \/ \E i \in 1..Len(reqs) : CompletionFails(i)
    \/ \E i \in 1..Len(reqs) : ChatRetry(i)

InitConversations ==
    /\ \E k \in 0..MaxEarlier :
          history = [c \in ChatIds |->
                        IF c \in TelegramIds THEN Earlier(k)
                        ELSE Earlier(MaxEarlier - k)]
    /\ reqs = <<>>
    /\ epoch = [c \in ChatIds |-> 0]
    /\ counting = FALSE
    /\ rt = RtIdle
    /\ StoreEmpty
    /\ ls = LsIdle
    /\ rv = RvIdle
    /\ DocsIdle
    /\ CacheEmpty
    /\ ChunkIdle
    /\ StartIdle
    /\ CosineIdle
    /\ BatchIdle

SpecConversations == InitConversations /\ [][ConversationsNext]_vars

\* Every request received so far has been answered.
AllAnswered ==
    /\ \A i \in 1..Len(reqs) : reqs[i].pc = "done"
    /\ \A i \in 1..Len(ing) : ing[i].pc = "done"

\* The two entry points that take input, POST /chat and POST /upload, with
\* well-formed and ill-formed input, sent by a client that waits for the
\* answer to one request before it sends the next.
InputsNext ==
    \/ AllAnswered /\ \E c \in WebIds, message \in Bodies : PostChat(c, message)
    \/ \E i \in 1..Len(reqs), res \in RetrieveOutcomes : RetrieveResolves(i, res)
    \/ \E i \in 1..Len(reqs) : CompletionSucceeds(i, <<"reply", i>>)
    \/ \E i \in 1..Len(reqs) : CompletionFails(i)
    \/ \E i \in 1..Len(reqs) : ChatRetry(i)
    \/ AllAnswered /\ \E mime \in MimeTypes : UploadFile(mime)
    \/ \E i \in 1..Len(ing) : ExtractResolves(i, <<80, 90>>)
    \/ \E i \in 1..Len(ing) : ExtractThrows(i)
    \/ \E i \in 1..Len(ing) : \E ok \in {{}, BatchOf(ing[i])} : BatchResolves(i, ok)
    \/ \E i \in 1..Len(ing) : WriteBegins(i)
    \/ \E i \in 1..Len(ing) : WriteCompletes(i)
    \/ \E i \in 1..Len(ing) : WriteFails(i)
    \/ \E i \in 1..Len(ing) : DelayOver(i)
    \/ \E i \in 1..Len(ing) : VerifySettles(i)
    \/ \E i \in 1..Len(ing) : CleanupDone(i)
    \/ \E i \in 1..Len(ing) : CleanupFails(i)
    \/ \E i \in 1..Len(ing) : UploadCatchDone(i)
    \/ \E i \in 1..Len(ing) : UploadRetry(i)

InitInputs ==
    /\ ChatInit
    /\ counting = FALSE
    /\ rt = RtIdle
    /\ StoreEmpty
    /\ ls = LsIdle
    /\ rv = RvIdle
    /\ DocsIdle
    /\ CacheEmpty
    /\ ChunkIdle
    /\ StartIdle
    /\ CosineIdle
    /\ BatchIdle

SpecInputs == InitInputs /\ [][InputsNext]_vars

\* The chunker alone, on every text of TextLengths x Layouts.
InitChunks ==
    /\ ChatInit
    /\ counting = FALSE
    /\ rt = RtIdle
    /\ StoreEmpty
    /\ ls = LsIdle
    /\ rv = RvIdle
    /\ DocsIdle
    /\ CacheEmpty
    /\ \E length \in TextLengths, layout \in Layouts :
           ck = Extracted(TextOf(length, layout))
    /\ StartIdle
    /\ CosineIdle
    /\ BatchIdle

SpecChunks == InitChunks /\ [][ChunksNext]_vars

\* The process from the call of startServer that ends the module.
InitStartup ==
    /\ ChatInit
    /\ counting = FALSE
    /\ rt = RtIdle
    /\ StoreEmpty
    /\ ls = LsIdle
    /\ rv = RvIdle
    /\ DocsIdle
    /\ CacheEmpty
    /\ ChunkIdle
    /\ StartIdle
    /\ CosineIdle
    /\ BatchIdle

SpecStartup == InitStartup /\ [][StartupNext]_vars

\* A server that found no service ready when it started and is listening,
\* its background retry over, with or without an uploaded document: the
\* health checks that follow.
InitWarmUp ==
    /\ ChatInit
    /\ counting = FALSE
    /\ rt = RtIdle
    /\ \E n \in 0..1 :
          /\ uploadedDocuments =
                [i \in 1..n |-> [id |-> i, chunks |-> 2, embeddings |-> 2]]
          /\ files = [d \in DocIds |->
                         IF d <= n
                         THEN [state |-> "complete",
                               chunks |-> <<[n |-> 1, sim |-> 80],
                                            [n |-> 2, sim |-> 90]>>]
                         ELSE NoFile]
    /\ ls = LsIdle
    /\ rv = RvIdle
    /\ DocsIdle
    /\ CacheEmpty
    /\ ChunkIdle
    /\ CosineIdle
    /\ BatchIdle
    /\ boot = [BootIdle EXCEPT !.pc = "listening", !.bot = TRUE,
                               !.listening = TRUE, !.retryTimer = "fired",
                               !.observed = TRUE]
    /\ healthCheckInterval = "timer"
    /\ warmups = <<NothingReady("startup"), Forgotten(NothingReady("retry"))>>

SpecWarmUp == InitWarmUp /\ [][WarmUpNext]_vars

\* calculateCosineSimilarity alone, on every pair of arguments.
InitCosine ==
    /\ ChatInit
    /\ counting = FALSE
    /\ rt = RtIdle
    /\ StoreEmpty
    /\ ls = LsIdle
    /\ rv = RvIdle
    /\ DocsIdle
    /\ CacheEmpty
    /\ ChunkIdle
    /\ StartIdle
    /\ \E vecA \in Vectors, vecB \in Vectors :
          cs = [pc |-> "called", vecA |-> vecA, vecB |-> vecB,
                similarity |-> Zero]
    /\ vs = VsIdle
    /\ BatchIdle

SpecCosine == InitCosine /\ [][CosineNext]_vars

\* One document of two chunks scored against a query: short vectors and
\* long ones, of positive components.
InitScore ==
    /\ ChatInit
    /\ counting = FALSE
    /\ rt = RtIdle
    /\ StoreEmpty
    /\ ls = LsIdle
    /\ rv = RvIdle
    /\ DocsIdle
    /\ CacheEmpty
    /\ ChunkIdle
    /\ StartIdle
    /\ cs = [pc |-> "idle", vecA |-> Undefined, vecB |-> Undefined,
             similarity |-> Zero]
    /\ \E n \in {MaxDim, MaxLong}, k \in {1, RetrieveK} :
       \E q \in [1..MaxDim -> {1, MaxComponent}] :
       \E c \in [1..2 -> [1..MaxDim -> {1, MaxComponent}]] :
          vs = [pc |-> "called", vector |-> Repeated(q, n),
                chunks |-> <<Repeated(c[1], n), Repeated(c[2], n)>>,
                k |-> k, results |-> <<>>]
    /\ BatchIdle

SpecScore == InitScore /\ [][ScoreNext]_vars

\* The batch loop over a text of up to MaxChunks chunks.
InitBatch ==
    /\ ChatInit
    /\ counting = FALSE
    /\ rt = RtIdle
    /\ StoreEmpty
    /\ ls = LsIdle
    /\ rv = RvIdle
    /\ DocsIdle
    /\ CacheEmpty
    /\ ChunkIdle
    /\ StartIdle
    /\ CosineIdle
    /\ \E c \in 0..MaxChunks :
          bt = [pc |-> "chunked", sims |-> [n \in 1..c |-> 10], batch |-> 0,
                calls |-> [n \in 1..c |-> "unissued"], embedded |-> <<>>]

SpecBatch == InitBatch /\ [][BatchNext]_vars

(***************************************************************************)
(* Properties of the conversation history.                                 *)
(***************************************************************************)
\* The requests of chat id c, in arrival order.
RequestsOf(c) ==
    LET OfC(i) == reqs[i].chatId = c
    IN  SelectSeq([i \in 1..Len(reqs) |-> i], OfC)

AllReplied(c) == \A i \in Range(RequestsOf(c)) : reqs[i].outcome = "replied"

AllAlone(c) == \A i \in Range(RequestsOf(c)) : reqs[i].alone

\* The stored history of c is one turn pair per request of c, in arrival
\* order: the user message, then the assistant's reply.
TurnPairsInArrivalOrder(c) ==
    LET idx == RequestsOf(c)
        h == history[c]
    IN  /\ Len(h) = 2 * Len(idx)
        /\ \A k \in 1..Len(idx) :
              /\ h[2 * k - 1] = UserMsg(idx[k])
              /\ h[2 * k].role = "assistant"
              /\ h[2 * k].content[2] \in {0, idx[k]}

\* C1: after R requests on one chat id have completed successfully one after
\* another (each arriving after the previous one was answered, no reset),
\* the stored history holds exactly 2R messages: per round trip, in order,
\* the user message followed by the assistant reply.
C1_SequentialRoundTrips ==
    \A c \in ChatIds :
        (epoch[c] = 0 /\ AllAlone(c) /\ AllReplied(c))
            => TurnPairsInArrivalOrder(c)

C1_Witness ==
    \E c \in ChatIds :
        /\ epoch[c] = 0 /\ AllAlone(c) /\ AllReplied(c)
        /\ Len(RequestsOf(c)) >= 2
        /\ Len(history[c]) = 2 * Len(RequestsOf(c))

\* C2: history updates of one chat id are append-only and in arrival order
\* also when requests overlap: once all requests of a chat id (never reset)
\* have completed successfully, every turn pair is stored, in arrival order.
C2_OverlappingRequestsKeepAllPairs ==
    \A c \in ChatIds :
        (epoch[c] = 0 /\ AllReplied(c)) => TurnPairsInArrivalOrder(c)

\* The history messages that request i sends in its prompt.
PromptHistory(i) ==
    {m \in Range(Messages(i)) : m.role # "system" /\ m # UserMsg(i)}

\* C3: the prompt of a request that arrives after a /reset of its chat id
\* holds no message that was stored before that reset.
C3_NoContextFromBeforeReset ==
    \A i \in 1..Len(reqs) :
        reqs[i].pc = "completion" =>
            \A m \in PromptHistory(i) :
                m.content[2] >= 1 =>
                    reqs[m.content[2]].doneEpoch >= reqs[i].arrEpoch

(***************************************************************************)
(* Properties of the two transports.                                       *)
(***************************************************************************)
RetrLog(i) ==
    LET IsRetr(e) == e[1] = "retrieve"
    IN  SelectSeq(reqs[i].log, IsRetr)

CompLog(i) ==
    LET IsComp(e) == e[1] = "completion"
    IN  SelectSeq(reqs[i].log, IsComp)

\* Two requests got the same upstream responses: call for call, as far as
\* both made the call.
Agree(s, t) == \A k \in 1..Len(s) : k <= Len(t) => s[k] = t[k]

SameResponses(i, j) ==
    /\ Agree(RetrLog(i), RetrLog(j))
    /\ Agree(CompLog(i), CompLog(j))

OnlyRequestOfItsChat(i) == RequestsOf(reqs[i].chatId) = <<i>>

Failed(i) == reqs[i].outcome \in {"apology", "error500"}

\* The stored turns without the request numbers: role and kind of content.
Shape(h) == [k \in 1..Len(h) |-> <<h[k].role, h[k].content[1]>>]

\* C10: a message handled by /chat and the same message handled by the
\* Telegram handler, from the same conversation state and with the same
\* upstream responses, make the same number of upstream calls and end with
\* the same reply-or-failure outcome and the same history update.
C10_ChannelParity ==
    \A i, j \in 1..Len(reqs) :
        ( /\ reqs[i].chan = "telegram" /\ reqs[j].chan = "web"
          /\ ~InFlight(i) /\ ~InFlight(j)
          /\ OnlyRequestOfItsChat(i) /\ OnlyRequestOfItsChat(j)
          /\ SameResponses(i, j) )
        => /\ Len(RetrLog(i)) = Len(RetrLog(j))
           /\ Len(CompLog(i)) = Len(CompLog(j))
           /\ Failed(i) = Failed(j)
           /\ Shape(history[reqs[i].chatId]) = Shape(history[reqs[j].chatId])

(***************************************************************************)
(* Properties of the retry wrapper.                                        *)
(***************************************************************************)
RtAllFailed == \A k \in 1..Len(rt.log) : rt.log[k][1] = "err"

\* C5: retryWithBackoff(op, n), n >= 1.  If op fails n-1 times and then
\* succeeds, the wrapper returns that value after exactly n invocations; if
\* op fails every time, the wrapper invokes it exactly n times and throws
\* the last error; op is never invoked again after it has succeeded.
C5_RetryWrapper ==
    (rt.status # "idle" /\ rt.maxRetries >= 1) =>
        /\ Len(rt.log) <= rt.maxRetries
        /\ \A k \in 1..(Len(rt.log) - 1) : rt.log[k][1] = "err"
        /\ (rt.log # <<>> /\ Last(rt.log)[1] = "ok")
              => rt.status = "returned" /\ rt.result = Last(rt.log)[2]
        /\ (Len(rt.log) = rt.maxRetries /\ RtAllFailed)
              => rt.status = "thrown" /\ rt.lastError = Last(rt.log)[2]
        /\ (Len(rt.log) < rt.maxRetries /\ RtAllFailed)
              => rt.status \in {"calling", "waiting"}

C5_Witness ==
    /\ rt.maxRetries = 3
    /\ rt.status = "returned"
    /\ Len(rt.log) = 3
    /\ rt.log[1][1] = "err" /\ rt.log[2][1] = "err"

(***************************************************************************)
(* Properties of retrieval.                                                *)
(***************************************************************************)

RetrieveReturned == rv.pc = "done"

\* C6: retrieve(question, k) returns at most k passages and at least
\* min(k, a + l) passages, a and l being the numbers of passages the remote
\* search and the local search returned for the query.
C6_FusionSize ==
    RetrieveReturned =>
        /\ Len(rv.result) <= rv.k
        /\ Len(rv.result) >= Min(rv.k, Len(rv.azure.results) + Len(ls.results))

\* C6 happens: both searches returned passages, more than k together.
C6_Witness ==
    /\ RetrieveReturned
    /\ rv.azure.results # <<>>
    /\ ls.results # <<>>
    /\ Len(rv.azure.results) + Len(ls.results) > rv.k
    /\ Len(rv.result) = rv.k

\* The fusion score as the claim words it: the similarity, one hundredth
\* more for a passage of the remote index.
ScoreOf(p) == p.similarity + (IF p.source = "azure_search" THEN 1 ELSE 0)

Candidates == Range(rv.azure.results) \cup Range(ls.results)

\* C7: the returned passages are the first k of the concatenated remote and
\* local results in non-increasing fusion score, so of two passages of equal
\* similarity the remote one ranks above the local one (and is returned
\* whenever the local one is).
C7_FusionOrder ==
    RetrieveReturned =>
        /\ \A i, j \in 1..Len(rv.result) :
              i < j => ScoreOf(rv.result[i]) >= ScoreOf(rv.result[j])
        /\ Range(rv.result) \subseteq Candidates
        /\ \A p \in Range(rv.result) : \A q \in Candidates \ Range(rv.result) :
              ScoreOf(p) >= ScoreOf(q)
        /\ \A i, j \in 1..Len(rv.result) :
              /\ rv.result[i].source = "azure_search"
              /\ rv.result[j].source = "uploaded_document"
              /\ rv.result[i].similarity = rv.result[j].similarity
              => i < j
        /\ \A p \in Range(rv.result) : \A q \in Candidates :
              /\ p.source = "uploaded_document"
              /\ q.source = "azure_search"
              /\ q.similarity = p.similarity
              => q \in Range(rv.result)

\* C7 happens: a remote and a local passage of equal similarity are both
\* returned, below a local passage that scores higher.
C7_Witness ==
    /\ RetrieveReturned
    /\ \E i, j, h \in 1..Len(rv.result) :
          /\ rv.result[i].source = "azure_search"
          /\ rv.result[j].source = "uploaded_document"
          /\ rv.result[i].similarity = rv.result[j].similarity
          /\ rv.result[h].source = "uploaded_document"
          /\ h < i

GivenUp(d) == ls.docs[d].pc = "done" /\ ls.docs[d].tries = ReadRetries

\* C8: when the remote search fails on every attempt, searchAzureIndex
\* returns an empty list after at most 3 attempts, retrieve does not throw
\* and returns exactly the local results; a local document that cannot be
\* read contributes nothing and does not keep the remote results back.
C8_IndependentBranches ==
    /\ rv.azure.attempt <= 3
    /\ rv.azure.status = "failed" => rv.azure.results = <<>>
    /\ rv.pc = "thrown" => rv.azure.status = "idle"
    /\ rv.pc = "search" /\ rv.azure.status # "calling" /\ ls.status = "done"
          => ENABLED RvFuse
    /\ RetrieveReturned /\ rv.azure.status = "failed"
          => rv.result = ls.results
    /\ RetrieveReturned =>
          /\ \A d \in DOMAIN ls.docs : GivenUp(d) =>
                \A p \in Range(rv.result) : p.documentId # d
          /\ (\A d \in DOMAIN ls.docs : GivenUp(d))
                => rv.result = rv.azure.results

\* C8 happens: every attempt of the remote search failed, one local
\* document could not be read, and the other's passages were returned.
C8_Witness ==
    /\ RetrieveReturned
    /\ rv.azure.status = "failed"
    /\ rv.azure.attempt = 3
    /\ \E d \in DOMAIN ls.docs : GivenUp(d)
    /\ rv.result # <<>>

\* C8 happens on the other side: no local document could be read and the
\* remote passages were returned.
C8_WitnessRemoteOnly ==
    /\ RetrieveReturned
    /\ ls.docs # <<>>
    /\ \A d \in DOMAIN ls.docs : GivenUp(d)
    /\ rv.result # <<>>

(***************************************************************************)
(* Properties of the document store and of the embedding cache.            *)
(***************************************************************************)
\* C4: in every reachable state, every document id present in the catalog
\* has its backing file present.
C4_CatalogEntriesHaveFiles ==
    \A d \in CatalogIds : files[d].state # "absent"

IsSuffix(s, t) ==
    Len(s) <= Len(t) /\ s = SubSeq(t, Len(t) - Len(s) + 1, Len(t))

\* C9: a cleanup sweep leaves at most MAX_CACHE_SIZE entries, the most
\* recently inserted ones; and as long as no more than MAX_CACHE_SIZE texts
\* have been inserted, the cache holds every one of them.
C9_SweepEnforcesCap ==
    [][ /\ ManageCache =>
            /\ Len(embeddingCache') <= MAX_CACHE_SIZE
            /\ IsSuffix(embeddingCache', embeddingCache)
        /\ texts' <= MAX_CACHE_SIZE =>
            embeddingCache' = [t \in 1..texts' |-> <<t, Vector>>]
      ]_vars

(***************************************************************************)
(* Properties of what the user is sent.                                    *)
(***************************************************************************)
\* C11: a chat request that fails for good is answered, on the Telegram
\* channel and on the dashboard channel alike, with the fixed apology, and
\* the answer carries nothing of the upstream error.
C11_TerminalFailureShowsApology ==
    \A i \in 1..Len(reqs) :
        reqs[i].pc = "done" /\ reqs[i].outcome # "replied" =>
            /\ reqs[i].response.text = APOLOGY
            /\ reqs[i].response.details = <<>>

(***************************************************************************)
(* Properties of ingestion.                                                *)
(***************************************************************************)
Catalogued == Range(uploadedDocuments)

Deleted(d) == \E j \in 1..Len(dels) : dels[j].id = d /\ dels[j].status # 404

\* The chunks embedded so far are chunks of the text, in the text's order,
\* and lie in the batches that have resolved.
EmbeddedAreChunks(r) ==
    /\ \A j \in 1..Len(r.embedded) :
          /\ r.embedded[j].n \in 1..Len(r.sims)
          /\ r.embedded[j].n <= r.batch
          /\ r.embedded[j].sim = r.sims[r.embedded[j].n]
    /\ \A j, h \in 1..Len(r.embedded) :
          j < h => r.embedded[j].n < r.embedded[h].n

\* C12: every document record has chunk count >= embedded-chunk count, and
\* the embedded-chunk count is the number of chunk records in the document's
\* file; chunks whose embedding failed are dropped, the others are kept, and
\* the document is registered all the same.
C12_EmbeddedCounts ==
    /\ \A info \in Catalogued :
          /\ info.chunks >= info.embeddings
          /\ files[info.id].state = "complete" =>
                Len(files[info.id].chunks) = info.embeddings
    /\ \A i \in 1..Len(ing) :
          /\ ing[i].pc \in {"embed", "write"} => EmbeddedAreChunks(ing[i])
          /\ ing[i].pc = "write" =>
                /\ ing[i].batch >= Len(ing[i].sims)
                /\ ~Deleted(ing[i].run) =>
                      [id |-> ing[i].run, chunks |-> Len(ing[i].sims),
                       embeddings |-> Len(ing[i].embedded)] \in Catalogued

\* C12 happens: an upload has succeeded although the embedding of some of
\* its chunks failed; its file holds the chunks that were embedded.
C12_Witness ==
    \E i \in 1..Len(ing) : \E info \in Catalogued :
        /\ ing[i].status = 200
        /\ ing[i].run = info.id
        /\ 0 < info.embeddings
        /\ info.embeddings < info.chunks
        /\ files[info.id].state = "complete"
        /\ Len(files[info.id].chunks) = info.embeddings


\* The fragments joined again, each after the first without the overlap it
\* shares with the one before it.
RECURSIVE WithoutOverlaps(_)
WithoutOverlaps(chunks) ==
    IF chunks = <<>> THEN <<>>
    ELSE LET n == Len(chunks)
         IN  WithoutOverlaps(SubSeq(chunks, 1, n - 1))
                 \o (IF n = 1 THEN chunks[1]
                     ELSE SubSeq(chunks[n], overlap + 1, Len(chunks[n])))

\* C13: for every input text no emitted fragment is shorter than the minimum
\* length of 50 characters, and the emitted fragments, concatenated with
\* their overlaps removed, are the whole normalized text.
C13_ChunksReconstructText ==
    ck.pc = "chunked" =>
        /\ \A j \in 1..Len(ck.chunks) : Len(ck.chunks[j]) >= MinChunkLength
        /\ WithoutOverlaps(ck.chunks) = ck.cleanedText

\* C14: a normalized text of 3000 characters gives exactly 3 chunks, or 2
\* when the last fragment is below the 50-character floor.
C14_ThreeChunksOf3000 ==
    ck.pc = "chunked" /\ Len(ck.cleanedText) = 3000 =>
        LET starts == ChunkStarts(ck.cleanedText)
            last == Slice(ck.cleanedText, starts[Len(starts)],
                          starts[Len(starts)] + chunkSize)
        IN  Len(ck.chunks) = IF Meaningful(last) THEN 3 ELSE 2

\* What a check of warmUpServices has seen when it failed.
FailureOutcomes == {"invalid", "error", "timeout", "create-error", "readdir-error"}

Kept(run) == run.pc # "logged"

Reported == Len(warmups) >= 1 /\ warmups[1].pc = "returned"
PartlyReady == Reported /\ \E c \in Services : ~warmups[1].results[c]
FullyReady == Reported /\ \A c \in Services : warmups[1].results[c]
RunsBy(kind) == {w \in 1..Len(warmups) : warmups[w].by = kind}

C17_FullStartWaits ==
    FullyReady =>
        /\ boot.bot \/ boot.listening => boot.delayed = startupDelay
        /\ boot.retryTimer = "none"
        /\ healthCheckInterval = "undefined"
        /\ Len(warmups) = 1

C17_Witness ==
    /\ FullyReady
    /\ boot.listening
    /\ boot.delayed = startupDelay

\* C18: the bot is not initialized and the server does not listen until a
\* warm-up has reported every service ready.  (Only the initial warm-up can
\* have reported by then: the others are started after initializeBot is
\* called.)
C18_NoTrafficBeforeAllReady ==
    boot.bot \/ boot.listening => FullyReady

(***************************************************************************)
(* Properties of embedText and its cache.                                  *)
(***************************************************************************)
Entries(map) == Range(map)
IsPrefix(s, t) == Len(s) <= Len(t) /\ s = SubSeq(t, 1, Len(s))

NumericVector(result) ==
    /\ result.type = "array"
    /\ result.items # <<>>
    /\ \A i \in 1..Len(result.items) : result.items[i] # "null"

\* C20: a response that holds no numeric vector is a failed attempt, retried
\* like a failed call; embedText throws once 3 attempts have failed, leaving
\* the cache as it was; no empty or invalid vector is cached or returned.
C20_InvalidResponseFails ==
    [][ /\ \A result \in Results :
              EmbedResponds(result) /\ ~NumericVector(result) =>
                  /\ em'.status = "waiting" \/ em'.last = "thrown"
                  /\ embeddingCache' = embeddingCache
        /\ em.status = "calling" /\ em'.last = "thrown" =>
              /\ em.attempt = EmbedRetries
              /\ embeddingCache' = embeddingCache
        /\ em.status = "calling" /\ em'.status = "waiting" =>
              em.attempt < EmbedRetries
        /\ \A i \in 1..Len(embeddingCache') : NumericVector(embeddingCache'[i][2])
        /\ em'.last \in {"hit", "stored"} => NumericVector(em'.returned)
      ]_vars

(***************************************************************************)
(* Properties of callAzureOpenAI.                                          *)
(***************************************************************************)
SourcesMessage(i) == Messages(i)[3]

NothingRetrieved(res) == res.threw \/ Len(res.passages) = 0

\* C21: a retrieval failure never fails a chat request: when retrieve throws
\* or returns no passage, callAzureOpenAI goes on to the completion call, and
\* the sources message of its prompt holds the fixed placeholder.
C21_RetrievalFailureStillCompletes ==
    [][\A i \in 1..Len(reqs) :
          (reqs[i].pc = "retrieve" /\ reqs'[i] # reqs[i]) =>
              /\ reqs'[i].pc = "completion"
              /\ reqs'[i].attempt = 1
              /\ history' = history
              /\ NothingRetrieved(reqs'[i].res) =>
                    BuildMessages(reqs'[i].prior, reqs'[i].res, i)[3]
                        = Msg("system", "SOURCES", 0, NoSources)]_vars

\* C21 happens: a request whose retrieval threw is at its completion call.
C21_Witness ==
    \E i \in 1..Len(reqs) :
        /\ reqs[i].pc = "completion"
        /\ reqs[i].res.threw
        /\ SourcesMessage(i).content[3] = NoSources

\* No /reset and no other request's save has changed the conversation's
\* stored history since request i read it at :2868.
Undisturbed(i) ==
    LET c == reqs[i].chatId
    IN  /\ reqs[i].alone
        /\ epoch[c] = reqs[i].arrEpoch
        /\ \A j \in (i + 1)..Len(reqs) :
              reqs[j].chatId = c => reqs[j].outcome # "replied"

\* C22: the prompt sent to the completion endpoint is, in order: the system
\* message, the sources-usage instruction, one system message with the
\* sources or the placeholder, the last HistoryWindow messages of the
\* conversation's history as callAzureOpenAI read it (which is the stored
\* history unless another request or a /reset changed it meanwhile), in
\* stored order, and last the new user message; nothing older is sent.
C22_PromptLayout ==
    \A i \in 1..Len(reqs) :
        reqs[i].pc = "completion" =>
            LET m == Messages(i)
                h == IF Undisturbed(i) THEN history[reqs[i].chatId]
                     ELSE reqs[i].prior
                w == Min(Len(h), HistoryWindow)
            IN  /\ Len(m) = 3 + w + 1
                /\ m[1] = SYSTEM_PROMPT
                /\ m[2] = SOURCES_RULES
                /\ m[3].role = "system" /\ m[3].content[1] = "SOURCES"
                /\ \A k \in 1..w : m[3 + k] = h[Len(h) - w + k]
                /\ m[Len(m)] = UserMsg(i)

\* C22 happens: a prompt is built on a stored history of more than
\* HistoryWindow messages, part of them stored by this behaviour's requests.
C22_Witness ==
    \E i \in 1..Len(reqs) :
        /\ reqs[i].pc = "completion"
        /\ Undisturbed(i)
        /\ i >= 2
        /\ Len(history[reqs[i].chatId]) > HistoryWindow + 1
        /\ Len(Messages(i)) = HistoryWindow + 4

\* The passages retrieval supplied to the prompt of the call that answered
\* request i.
Supplied(i) == Last(RetrLog(i))[2].passages

\* C23: whenever retrieval supplied at least one passage to the prompt of a
\* /chat request, the sources of that request's answer are those passages,
\* in the prompt's order.
C23_ChatAnswerCitesPassages ==
    \A i \in 1..Len(reqs) :
        ( /\ reqs[i].chan = "web"
          /\ reqs[i].outcome = "replied"
          /\ Len(Supplied(i)) >= 1 )
        => reqs[i].response.sources = Supplied(i)

GLYPH == <<"glyph", 0>>

\* C24: a completion response that carries no reply text does not make
\* callAzureOpenAI throw: the request is answered with the placeholder glyph,
\* and the user message and the glyph as assistant message are appended to
\* the history the call read.
C24_EmptyReplyGivesGlyph ==
    [][\A i \in 1..Len(reqs) :
          ( /\ reqs[i].pc = "completion"
            /\ Len(reqs'[i].log) > Len(reqs[i].log)
            /\ Last(reqs'[i].log) = <<"completion", "empty">> )
          => /\ reqs'[i].outcome = "replied"
             /\ reqs'[i].response.text = GLYPH
             /\ history'[reqs[i].chatId] =
                    reqs[i].prior \o <<UserMsg(i), AssistantMsg(GLYPH)>>]_vars

\* C24 happens: a conversation with stored turns got an empty completion
\* response, and the request is answered.
C24_Witness ==
    \E i \in 1..Len(reqs) :
        /\ reqs[i].pc = "done"
        /\ Last(CompLog(i)) = <<"completion", "empty">>
        /\ reqs[i].response.text = GLYPH
        /\ Len(history[reqs[i].chatId]) > 2
        /\ Last(history[reqs[i].chatId]) = AssistantMsg(GLYPH)

(***************************************************************************)
(* Properties of the entry points' input checks.                           *)
(***************************************************************************)
Rejected(r) ==
    /\ r.pc = "done"
    /\ r.outcome = "error400"
    /\ r.response.text = MESSAGE_REQUIRED
    /\ r.attempt = 0 /\ r.log = <<>>

\* C25: unsupported input is rejected at once, without retry.  A POST /chat
\* whose message is missing or white space only is answered 400 with no
\* retrieval or completion call and no change of the history; a file of a
\* type that processDocument does not handle is refused with no run of
\* processDocument (so no extraction, no embedding, no retry) and no change
\* of the catalog or of any file.  What was rejected stays so.
C25_RejectedAtOnce ==
    [][ /\ \A c \in WebIds, message \in {"missing", "blank"} :
              PostChat(c, message) =>
                  /\ Len(reqs') = Len(reqs) + 1
                  /\ Rejected(Last(reqs'))
                  /\ history' = history
        /\ \A i \in 1..Len(reqs) : Rejected(reqs[i]) => reqs'[i] = reqs[i]
        /\ \A u \in 1..Len(ing') :
              ~ExtractsText(ing'[u].mime) =>
                  /\ ing'[u].pc = "done" /\ ing'[u].run = 0
                  /\ IF u > Len(ing)
                     THEN /\ runs' = runs
                          /\ uploadedDocuments' = uploadedDocuments
                          /\ files' = files
                     ELSE ing'[u] = ing[u] ]_vars

\* C25 happens: a message was rejected and a file was refused, while another
\* file was being processed.
C25_Witness ==
    /\ \E i \in 1..Len(reqs) : Rejected(reqs[i])
    /\ \E u \in 1..Len(ing) : ing[u].mime = "text/plain" /\ ing[u].pc = "done"
    /\ \E u \in 1..Len(ing) : ing[u].pc = "embed"

(***************************************************************************)
(* Properties of DELETE /documents/:id.                                    *)
(***************************************************************************)
\* Request j is answered by the step.
DeleteAnswered(j) ==
    /\ dels'[j].pc = "done"
    /\ j <= Len(dels) => dels[j].pc # "done"

C26_WitnessNotFound ==
    \E j \in 1..Len(dels) :
        /\ dels[j].status = 404
        /\ CatalogIds # {}
\* C28: a single chat request, on either channel, calls the completion
\* endpoint at most 3 times before its failure is surfaced to the caller.
C28_AttemptCap ==
    \A i \in 1..Len(reqs) : Len(CompLog(i)) <= CompletionRetries

\* The completion call of request i fails in this step.
FailsNow(i) ==
    /\ reqs[i].pc = "completion"
    /\ reqs'[i] # reqs[i]
    /\ reqs'[i].outcome # "replied"

\* Stored turns come in pairs, a user message and the assistant reply to it.
TurnPairs(h) ==
    /\ Len(h) % 2 = 0
    /\ \A j \in 1..Len(h) :
          h[j].role = IF j % 2 = 1 THEN "user" ELSE "assistant"

\* C29: a failing completion call, on whichever attempt, leaves the stored
\* history exactly as it was, and the request that has failed for good has
\* stored nothing: no user message is stored without its assistant reply.
C29_FailureKeepsHistory ==
    [][ \A i \in 1..Len(reqs) : FailsNow(i) =>
            /\ history' = history
            /\ \A c \in ChatIds :
                  /\ TurnPairs(history'[c])
                  /\ \A j \in 1..Len(history'[c]) : history'[c][j].content[2] # i
      ]_vars

\* C29 happens: a request on a conversation with stored turns has failed for
\* good, after three failed completion calls, and the turns are as before.
C29_Witness ==
    \E i \in 1..Len(reqs) : \E k \in 1..MaxEarlier :
        /\ reqs[i].pc = "done"
        /\ Failed(i)
        /\ Len(CompLog(i)) >= CompletionRetries
        /\ history[reqs[i].chatId] = Earlier(k)

\* C30: an upload that ends in failure leaves the catalog unchanged, and an
\* upload that ends in success adds exactly one catalog entry, whose file is
\* persisted, also when /upload's retry wrapper has run processDocument
\* again.  With the catalog empty at first and no deletion: once every
\* upload is answered, the catalog has one entry for each upload answered
\* with success, its file complete, and none for an upload answered with
\* failure.
C30_CatalogFollowsOutcome ==
    (\A i \in 1..Len(ing) : ing[i].pc = "done") =>
        /\ Len(uploadedDocuments) =
              Cardinality({i \in 1..Len(ing) : ing[i].status = 200})
        /\ \A i \in 1..Len(ing) :
              /\ ing[i].status = 200 =>
                    /\ ing[i].run \in CatalogIds
                    /\ files[ing[i].run].state = "complete"
              /\ ing[i].status = 500 => ing[i].run \notin CatalogIds

(***************************************************************************)
(* Properties of the cosine similarity.                                    *)
(***************************************************************************)
One == Number(1)

NonZero(v) == \E i \in 1..Len(v) : v[i] # 0

\* C27: calculateCosineSimilarity is symmetric for vectors of equal length,
\* its value lies in [-1, 1] (it is never negative, so: it is never above 1),
\* and the similarity of a nonzero vector to itself is 1.
C27_CosineProperties ==
    cs.pc = "returned" /\ IsArray(cs.vecA) /\ IsArray(cs.vecB)
      /\ Len(cs.vecA.items) = Len(cs.vecB.items) =>
        /\ cs.similarity = calculateCosineSimilarity(cs.vecB, cs.vecA)
        /\ cs.similarity = Zero \/ ~GreaterThan(cs.similarity, One)
        /\ cs.vecA = cs.vecB /\ NonZero(cs.vecA.items) => cs.similarity = One

(***************************************************************************)
(* Properties of the embedding cache's eviction.                           *)
(***************************************************************************)
\* 20% of n entries, rounded down.
Fifth(n) == (n * 2) \div 10

\* C34: storing an embedding never evicts anything; a cleanup sweep leaves
\* the cache unchanged when it holds at most MAX_CACHE_SIZE entries, and
\* when it holds more it removes the oldest-inserted 20% of the entries and
\* no others.
C34_EvictionBySweepOnly ==
    [][ /\ ~ManageCache => IsPrefix(embeddingCache, embeddingCache')
        /\ ManageCache =>
              embeddingCache' =
                 IF Len(embeddingCache) <= MAX_CACHE_SIZE
                 THEN embeddingCache
                 ELSE SubSeq(embeddingCache, Fifth(Len(embeddingCache)) + 1,
                             Len(embeddingCache))
      ]_vars

(***************************************************************************)
(* Properties of the local-store search.                                   *)
(***************************************************************************)
LsReturned == ls.status = "done"

\* The per-document selections of the search, all together.
Selected == UNION {Range(ls.docs[d].results) : d \in DOMAIN ls.docs}

OfDocument(s, d) == {i \in 1..Len(s) : s[i].documentId = d}

\* C32: every passage the local-store search returns has similarity above
\* the floor 0.1; at most ceil(k/2) of them come from one document; they are
\* in non-increasing similarity and at most k, the k best of the
\* per-document selections.
C32_LocalSearchResult ==
    LsReturned =>
        /\ \A i \in 1..Len(ls.results) :
              ls.results[i].similarity > SimilarityThreshold
        /\ \A d \in DOMAIN ls.docs :
              2 * Cardinality(OfDocument(ls.results, d)) <= ls.k + 1
        /\ \A i, j \in 1..Len(ls.results) :
              i < j => ls.results[i].similarity >= ls.results[j].similarity
        /\ Len(ls.results) = Min(ls.k, Cardinality(Selected))
        /\ Range(ls.results) \subseteq Selected
        /\ \A p \in Range(ls.results) : \A q \in Selected \ Range(ls.results) :
              p.similarity >= q.similarity

\* C32 happens: a search for k passages has returned k, leaving out the
\* third passage above the floor of a document that gave ceil(k/2).
C32_Witness ==
    /\ LsReturned
    /\ Len(ls.results) = ls.k
    /\ \E d \in DOMAIN ls.docs :
          /\ files[d].state = "complete"
          /\ Len(files[d].chunks) = 3
          /\ \A i \in 1..3 : files[d].chunks[i].sim > SimilarityThreshold
          /\ 2 * Cardinality(OfDocument(ls.results, d)) \in {ls.k, ls.k + 1}
          /\ Cardinality(OfDocument(ls.results, d)) < 3

\* What the search has made of document d: it was read, or given up.
ReadOrGivenUp(d) ==
    LET st == ls.docs[d]
    IN  /\ st.tries <= ReadRetries
        /\ st.pc = "wait" => st.tries < ReadRetries
        /\ st.pc = "done" =>
              IF files[d].state = "complete"
              THEN st.tries = 0 /\ st.results = DocResults(d, files[d].chunks, ls.k)
              ELSE GivenUp(d) /\ st.results = <<>>

\* C33: in a local-store search a document whose file is missing or
\* unreadable is tried at most 3 times, with the delay between the tries,
\* and is then skipped for this query only: the search terminates and
\* returns the k best of the other documents' passages, and the document
\* skipped is still in the catalog.
C33_UnreadableDocumentSkipped ==
    /\ [](\A d \in DOMAIN ls.docs :
            /\ ReadOrGivenUp(d)
            /\ d \in CatalogIds)
    /\ [](LsReturned =>
            ls.results =
               LocalTopK(ls.order,
                         [d \in DOMAIN ls.docs |->
                            [results |-> IF files[d].state = "complete"
                                         THEN DocResults(d, files[d].chunks, ls.k)
                                         ELSE <<>>]],
                         ls.k))
    /\ (ls.status = "running") ~> LsReturned

\* C33 happens: one document was given up after three tries, the other
\* document's passages are returned, and both are in the catalog.
C33_Witness ==
    /\ LsReturned
    /\ \E d, e \in DOMAIN ls.docs :
          /\ GivenUp(d)
          /\ ls.docs[e].results # <<>>
          /\ Range(ls.docs[e].results) \subseteq Range(ls.results)
          /\ {d, e} \subseteq CatalogIds

(***************************************************************************)
(* Properties of the batch loop.                                           *)
(***************************************************************************)
\* The number of the batch that chunk n belongs to.
BatchNumber(n) == (n - 1) \div BATCH_SIZE + 1

Settled(n) == bt.calls[n] \in {"vector", "null"}

\* C31: during one ingestion the embedding calls are issued in batches of at
\* most 5: the calls of a batch are issued together, no call of a later
\* batch is issued before every call of the batches before it has settled,
\* so never more than 5 are in flight; and the chunks kept are in the order
\* of the text.
C31_BatchedEmbedding ==
    bt.pc # "idle" =>
        /\ Cardinality(Pending(bt)) <= BATCH_SIZE
        /\ \A n, m \in 1..Len(bt.calls) :
              /\ BatchNumber(n) = BatchNumber(m) =>
                    (bt.calls[n] = "unissued" <=> bt.calls[m] = "unissued")
              /\ BatchNumber(m) < BatchNumber(n) /\ bt.calls[n] # "unissued"
                    => Settled(m)
        /\ \A j, h \in 1..Len(bt.embedded) :
              j < h => bt.embedded[j].n < bt.embedded[h].n
        /\ \A j \in 1..Len(bt.embedded) :
              bt.calls[bt.embedded[j].n] = "vector"
        /\ bt.pc = "stored" =>
              {bt.embedded[j].n : j \in 1..Len(bt.embedded)}
                 = {n \in 1..Len(bt.calls) : bt.calls[n] = "vector"}

\* C31 happens: the five calls of the second batch are in flight, after a
\* first batch of which one call failed.
C31_Witness ==
    /\ bt.pc = "await"
    /\ bt.batch = BATCH_SIZE
    /\ Cardinality(Pending(bt)) = BATCH_SIZE
    /\ Len(bt.embedded) = BATCH_SIZE - 1

\* C31 happens: the loop is over for a text of three batches, and some but
\* not all of its chunks were embedded.
C31_WitnessStored ==
    /\ bt.pc = "stored"
    /\ Len(bt.sims) > 2 * BATCH_SIZE
    /\ 0 < Len(bt.embedded)
    /\ Len(bt.embedded) < Len(bt.sims)

(***************************************************************************)
(* Properties of the separation of conversations.                          *)
(***************************************************************************)
\* The step is one of conversation c: its /reset is processed, or one of its
\* requests arrives or moves on.
ActsOn(c) ==
    \/ epoch'[c] # epoch[c]
    \/ Len(reqs') > Len(reqs) /\ reqs'[Len(reqs')].chatId = c
    \/ \E i \in 1..Len(reqs) : reqs[i].chatId = c /\ reqs'[i] # reqs[i]

\* In the step, request i runs callAzureOpenAI's history.get (:2868).
ReadsHistory(i) ==
    /\ reqs'[i].pc = "retrieve"
    /\ i <= Len(reqs) => reqs[i].pc = "backoff"

\* The turns in the prompt of request i that were exchanged in this
\* behaviour are turns of request i's conversation.
OwnTurnsOnly(i) ==
    \A m \in Range(Messages(i)) :
        m.role \in {"user", "assistant"} /\ m.content[2] > 0
            => reqs[m.content[2]].chatId = reqs[i].chatId

\* C35: a chat request or a reset on one conversation id leaves the history
\* of every other id unchanged, and the prompt of a request holds history
\* of its own conversation only: the history it read under its own id.
C35_ConversationsSeparate ==
    /\ [][ /\ \A c \in ChatIds, d \in ChatIds :
                 ActsOn(c) /\ d # c => history'[d] = history[d]
            /\ \A i \in 1..Len(reqs') :
                 ReadsHistory(i) => reqs'[i].prior = history[reqs'[i].chatId]
          ]_vars
    /\ [](\A i \in 1..Len(reqs) :
             reqs[i].pc \in {"retrieve", "completion"} => OwnTurnsOnly(i))

\* C35 witness: a request is at its completion call with a turn of this
\* behaviour in its prompt, a request of the other conversation has been
\* replied to, and a /reset has been processed.
C35_Witness ==
    \E i \in 1..Len(reqs), j \in 1..Len(reqs) :
        /\ reqs[i].pc = "completion"
        /\ \E m \in Range(reqs[i].prior) : m.content[2] > 0
        /\ reqs[j].chatId # reqs[i].chatId
        /\ reqs[j].outcome = "replied"
        /\ \E c \in ChatIds : epoch[c] > 0 /\ history[c] = <<>>

(***************************************************************************)
(* Properties of the shape of a stored history.                            *)
(***************************************************************************)
\* C36: in every reachable state each stored history holds user and
\* assistant messages only, in strict alternation starting with a user
\* message (so its length is even); no system message, the SOURCES message
\* included, is ever stored.
C36_StoredHistoryAlternates ==
    \A c \in ChatIds :
        /\ TurnPairs(history[c])
        /\ \A j \in 1..Len(history[c]) :
              /\ history[c][j].role # "system"
              /\ history[c][j].content[1] \in {"text", "reply", "glyph"}
              /\ history[c][j].content[3] = <<>>

\* C36 witness: two requests of one conversation that were in flight
\* together have both been replied to, and the conversation holds turns.
C36_Witness ==
    \E i \in 1..Len(reqs), j \in 1..Len(reqs) :
        /\ i < j
        /\ reqs[i].chatId = reqs[j].chatId
        /\ reqs[i].outcome = "replied" /\ reqs[j].outcome = "replied"
        /\ ~reqs[j].alone
        /\ Len(history[reqs[i].chatId]) >= 4

(***************************************************************************)
(* Properties of a delete next to a local search.                          *)
(***************************************************************************)
\* The passages the search holds, per document and as its result.
LsPassages ==
    Range(ls.results) \cup
       UNION {Range(ls.docs[d].results) : d \in DOMAIN ls.docs}

\* C37: once a delete has removed a document from the catalog, no local
\* search that starts afterwards returns passages of it; a search that is
\* running when the delete happens still returns, and returns the passages
\* of the other documents.
C37_DeleteNextToSearch ==
    /\ [][ls.status = "idle" /\ ls'.status # "idle" =>
            \A d \in DocIds : Deleted(d) => d \notin Range(ls'.order)]_vars
    /\ [](/\ \A p \in LsPassages : p.documentId \in Range(ls.order)
          /\ LsReturned =>
                /\ \A e \in Range(ls.order) :
                      /\ ~Deleted(e) /\ files[e].state = "complete" =>
                            ls.docs[e].results =
                               DocResults(e, files[e].chunks, ls.k)
                      /\ \A p \in Range(ls.docs[e].results) : p.documentId = e
                /\ ls.results = LocalTopK(ls.order, ls.docs, ls.k))
    /\ (ls.status = "running") ~> LsReturned

\* C37 happens: the search has returned the other document's passages and
\* none of a document that was deleted, and whose file was removed, while
\* the search ran.
C37_Witness ==
    /\ LsReturned
    /\ \E d, e \in Range(ls.order) :
          /\ Deleted(d)
          /\ ls.docs[d].tries > 0
          /\ ~Deleted(e)
          /\ ls.docs[e].results # <<>>
          /\ \A p \in Range(ls.results) : p.documentId = e

\* C37 happens: a search has started after a delete and has returned
\* passages.
C37_WitnessAfter ==
    /\ LsReturned
    /\ ls.results # <<>>
    /\ \E d \in DocIds : Deleted(d) /\ d \notin Range(ls.order)

(***************************************************************************)
(* Properties of remote passages in the fused ranking.                     *)
(***************************************************************************)
\* The fusion score of every remote passage: 0.8 + 0.01.
RemoteScore == AzureSimilarity + AzureBonus

\* C38: every remote passage has similarity 0.8, so a local passage is
\* ranked ahead of a remote one only if its similarity exceeds 0.81; and
\* when the remote search returned k passages, no local passage of
\* similarity 0.81 or less is returned.
C38_RemoteOutranksUpTo81 ==
    rv.pc = "done" =>
        /\ \A p \in Range(rv.azure.results) : p.similarity = AzureSimilarity
        /\ \A i, j \in 1..Len(rv.result) :
              /\ i < j
              /\ rv.result[i].source = "uploaded_document"
              /\ rv.result[j].source = "azure_search"
              => rv.result[i].similarity > RemoteScore
        /\ Len(rv.azure.results) = rv.k =>
              \A p \in Range(rv.result) :
                  p.source = "uploaded_document" => p.similarity > RemoteScore

\* C38 happens: the remote search returned k passages, the local search
\* found passages of similarity 0.81 and higher ones, and the fused result
\* holds a higher one ahead of a remote passage and none of the former.
C38_Witness ==
    /\ rv.pc = "done"
    /\ Len(rv.azure.results) = rv.k
    /\ \E q \in Range(ls.results) : q.similarity = RemoteScore
    /\ \E i, j \in 1..Len(rv.result) :
          /\ i < j
          /\ rv.result[i].source = "uploaded_document"
          /\ rv.result[j].source = "azure_search"

(***************************************************************************)
(* Properties of the formatted passages.                                   *)
(***************************************************************************)
\* C39: the passages are formatted as [#1], [#2], ... in fused rank order,
\* and each formatted passage carries its source locator: the URL of a
\* remote passage, uploaded://<docId> for a local-store passage.
C39_BlocksCarryLocators ==
    rv.pc = "done" =>
        LET blocks == ContextBlocks(rv.result)
        IN  /\ Len(blocks) = Len(rv.result)
            /\ \A i \in 1..Len(blocks) :
                  /\ blocks[i].tag = i
                  /\ blocks[i].title = PassageTitle(rv.result[i])
                  /\ blocks[i].content = PassageContent(rv.result[i])
                  /\ blocks[i].source = PassageUrl(rv.result[i])

(***************************************************************************)
(* Properties of the shortcuts of calculateCosineSimilarity.               *)
(***************************************************************************)
\* The sum of vecA[j] * vecB[j] for j in lo..hi.
RECURSIVE DotSum(_, _, _, _)
DotSum(vecA, vecB, lo, hi) ==
    IF lo > hi THEN 0
    ELSE IF lo = hi THEN vecA[lo] * vecB[lo]
    ELSE DotSum(vecA, vecB, lo, (lo + hi) \div 2)
           + DotSum(vecA, vecB, (lo + hi) \div 2 + 1, hi)

\* The cosine similarity as the same formula gives it over the whole
\* vectors, without leaving the loop early and without the cut at 0.05
\* (Zero where the quotient is not a positive number).
ExactCosine(vecA, vecB) ==
    IF ~IsArray(vecA) \/ ~IsArray(vecB) THEN Zero
    ELSE IF Len(vecA.items) # Len(vecB.items) THEN Zero
    ELSE LET n == Len(vecA.items)
             dotProduct == DotSum(vecA.items, vecB.items, 1, n)
             normA == DotSum(vecA.items, vecA.items, 1, n)
             normB == DotSum(vecB.items, vecB.items, 1, n)
         IN  IF normA = 0 \/ normB = 0 \/ dotProduct <= 0 THEN Zero
             ELSE Quotient(dotProduct, normA, normB)

\* C40: leaving the loop early and cutting similarities of 0.05 or less to 0
\* do not change what the local search returns: for every query vector and
\* all stored chunk vectors it returns the ranked top k that the exact
\* cosine similarity gives.
C40_ShortcutsKeepTopK ==
    vs.pc = "returned" =>
        vs.results =
           ScoredTopK(<<ExactCosine(vs.vector, vs.chunks[1]),
                        ExactCosine(vs.vector, vs.chunks[2])>>,
                      vs.chunks, vs.k)

=============================================================================
